---- MODULE Spec2Model ----
(***************************************************************************)
(* A model of the faun structure-of-arrays engine: the Column Model that   *)
(* #[derive(SoA)] generates, the copy-on-write Store that                  *)
(* #[derive(SoAStore)] generates, and the two persistence adapters         *)
(* (ArrowPersistence in memory, ParquetPersistence on disk).               *)
(*                                                                         *)
(* The record shape is the example application's Order, projected on the   *)
(* three fields order_id, status and payment_method (one plain integer     *)
(* column and the two enumeration columns).  Rust's 0-based row index i is *)
(* position i + 1 of a TLA+ sequence.                                      *)
(***************************************************************************)
EXTENDS Integers, Sequences, FiniteSets, TLC

(***************************************************************************)
(* Bounds of the model.                                                    *)
(***************************************************************************)
\* rows pushed into the Column Model of SpecSoA
MaxRows == 3
\* largest capacity hint handed to with_capacity
MaxCap == 1
\* Store handles that exist at one time (SpecStore)
MaxHandles == 2
\* rows one Store snapshot may hold (SpecStore)
MaxStoreRows == 2
\* rows of one Column Model handed to save or append
MaxData == 2
\* writes an adapter holds since its last save or clear
MaxBatches == 2
\* rows an adapter holds
MaxStored == 3
\* tasks that use clones of one adapter, or adapters on one path, concurrently
NumTasks == 2
\* shards of the Sharded Store (SpecSharded)
MaxShards == 2
\* rows added to the Sharded Store
MaxShardRows == 3
\* largest value the hasher yields
MaxHash == 3
\* largest enumeration code in a file written by another program
MaxCode == 4
\* rows of a file written by another program
MaxForeignRows == 2

(***************************************************************************)
(* The record shape and its data.                                          *)
(***************************************************************************)
\* example_app/src/lib.rs: enum OrderStatus, in declaration order
OrderStatus == <<"Pending", "Processing", "Shipped", "Delivered">>

\* example_app/src/lib.rs: enum PaymentMethod, in declaration order
PaymentMethod == <<"CreditCard", "PayPal", "BankTransfer">>

\* the fields of Order kept by the model, in declaration order
field_idents == <<"order_id", "status", "payment_method">>

FieldSet == {field_idents[k] : k \in DOMAIN field_idents}

first_field == field_idents[1]

\* the first orders of the demo's order list (persistent_demo.rs)
DemoOrders ==
    << [order_id |-> 1, status |-> "Delivered", payment_method |-> "CreditCard"],
       [order_id |-> 2, status |-> "Shipped", payment_method |-> "PayPal"],
       [order_id |-> 3, status |-> "Delivered", payment_method |-> "BankTransfer"] >>

Rows == {DemoOrders[k] : k \in DOMAIN DemoOrders}

\* the rows added through Store handles: the first two demo orders
StoreRows == {DemoOrders[1], DemoOrders[2]}

VARIABLES
    \* ---- the Column Model under test (SpecSoA)
    soa,        \* the OrderSoA: one sequence per field
    capacity,   \* the capacity it was constructed with (0 for new())
    pushed,     \* history: the rows handed to push, in call order
    soaRet,     \* what the last call on the Column Model returned
    \* ---- Store handles over shared Column Models (SpecStore)
    arcs,       \* the Arc allocations: allocation id -> OrderSoA, or Freed
    inner,      \* Store handle -> the allocation its `inner` points to, or 0
    storeOp,    \* the last Store operation and whether make_mut copied
    \* ---- the persistence adapters (SpecPersist, SpecArrowConc, SpecDisk)
    backend,    \* the adapter type in use: "none", "arrow" or "parquet"
    batches,    \* ArrowPersistence.batches: the Vec<RecordBatch> under the RwLock
    lock,       \* the RwLock: its writer (0 when none) and its readers
    file,       \* the file base_path/data.parquet
    pc,         \* task -> where it is in its call
    call,       \* task -> the call it is in: operation and argument
    loc,        \* task -> the call's local values
    ret,        \* task -> the result of the call, once it is at "ret"
    hist,       \* history: the writes committed since the last save or clear
    stable,     \* history: the batch list as the last writer left it
    \* ---- the Sharded Store (SpecSharded)
    shards,     \* OrderShardedStore.shards: one OrderSoA per shard
    hasher,     \* key -> the value DefaultHasher yields for it, once it is known
    shardOp,    \* the last Sharded Store operation, its argument and result
    \* ---- the enumeration codes (SpecEnum)
    conv        \* the last conversion of a column of variants or codes

soaVars == <<soa, capacity, pushed, soaRet>>
storeVars == <<arcs, inner, storeOp>>
persistVars == <<backend, batches, lock, file, pc, call, loc, ret, hist, stable>>
shardVars == <<shards, hasher, shardOp>>
convVars == <<conv>>
vars == <<soa, capacity, pushed, soaRet, arcs, inner, storeOp,
          backend, batches, lock, file, pc, call, loc, ret, hist, stable,
          shards, hasher, shardOp, conv>>

(***************************************************************************)
(* The generated Column Model (soa_macros/src/lib.rs, derive_soa).         *)
(***************************************************************************)
\* fn new(): every column an empty Vec
new == [f \in FieldSet |-> <<>>]

\* fn with_capacity(cap): every column an empty Vec with reserved room;
\* the reserved room is no part of a Vec's contents
with_capacity(cap) == [f \in FieldSet |-> <<>>]

\* debug_assert_eq!(self.first.len(), self.f.len()) for every field f
equal_len_asserts(s) == \A f \in FieldSet : Len(s[first_field]) = Len(s[f])

\* fn len(): the first column's length
len(s) == Len(s[first_field])

\* fn is_empty()
is_empty(s) == len(s) = 0

PushSkipsLastColumn(s, v) ==
    [f \in FieldSet |->
        IF f = field_idents[Len(field_idents)] THEN s[f] ELSE Append(s[f], v[f])]

\* self.f.push(v.f) for every field f
push_moves(s, v) == [f \in FieldSet |-> Append(s[f], v[f])]

PushReturnsLen(s, v) ==
    LET t == push_moves(s, v)
    IN  [soa |-> t, ret |-> len(t)]

\* fn push(v): the pushes, then len() - 1
push(s, v) ==
    LET t == push_moves(s, v)
    IN  [soa |-> t, ret |-> len(t) - 1]

ViewBindsFirstRow(s, i) == [f \in FieldSet |-> s[f][1]]

\* f: &self.f[i] for every field f
view_ctor_bind(s, i) == [f \in FieldSet |-> s[f][i + 1]]

\* self.f[i] is a checked index: it panics when i is past the column's end
IndexInBounds(s, i) == \A f \in FieldSet : i + 1 \in DOMAIN s[f]

\* fn view(i)
view(s, i) ==
    IF IndexInBounds(s, i)
    THEN [kind |-> "view", row |-> view_ctor_bind(s, i)]
    ELSE [kind |-> "panic"]

\* f: &mut self.f[i] for every field f
view_mut_ctor_bind(s, i) == [f \in FieldSet |-> s[f][i + 1]]

\* fn view_mut(i): the same rows as view(i), bound for writing
view_mut(s, i) ==
    IF IndexInBounds(s, i)
    THEN [kind |-> "view_mut", row |-> view_mut_ctor_bind(s, i)]
    ELSE [kind |-> "panic"]

WriteFillsColumn(s, i, f, v) == [s EXCEPT ![f] = [k \in DOMAIN s[f] |-> v]]

\* *view.f = v on the view view_mut(i) handed out: f is &mut self.f[i]
view_mut_write(s, i, f, v) == [s EXCEPT ![f][i + 1] = v]

RawArraySkipsFirst(s, f) == IF s[f] = <<>> THEN <<>> ELSE Tail(s[f])

\* fn f_raw_array(): &self.f, the whole column as a slice
raw_array(s, f) == s[f]

IterStopsOneShort(s) == [start |-> 0, end |-> IF len(s) = 0 THEN 0 ELSE len(s) - 1]

\* fn iter(): (0..self.len()).map(|i| self.view(i)); the range is fixed when
\* iter() is called and nothing is viewed before next() asks for it
iter(s) == [start |-> 0, end |-> len(s)]

\* Iterator::next on the mapped range: the view of the next index, or the end
iter_next(s, range) ==
    IF range.start < range.end
    THEN [range |-> [range EXCEPT !.start = @ + 1], item |-> view(s, range.start)]
    ELSE [range |-> range, item |-> [kind |-> "none"]]

(***************************************************************************)
(* SpecSoA: one Column Model, built by new() or with_capacity(cap), then   *)
(* driven by push, view and len.                                           *)
(***************************************************************************)
SoAInit ==
    /\ soa = new
    /\ capacity = 0
    /\ soaRet = [op |-> "new"]
    /\ pushed = <<>>

\* the Column Model under test is replaced by one built by with_capacity(cap)
SoA_with_capacity(cap) ==
    /\ soa' = with_capacity(cap)
    /\ capacity' = cap
    /\ soaRet' = [op |-> "with_capacity"]
    /\ pushed' = <<>>
    /\ UNCHANGED <<storeVars, persistVars, shardVars, convVars>>

SoA_push(v) ==
    /\ Len(pushed) < MaxRows
    /\ soa' = push(soa, v).soa
    /\ soaRet' = [op |-> "push", ret |-> push(soa, v).ret]
    /\ pushed' = Append(pushed, v)
    /\ UNCHANGED <<capacity, storeVars, persistVars, shardVars, convVars>>

SoA_view(i) ==
    /\ soaRet' = [op |-> "view", i |-> i, out |-> view(soa, i)]
    /\ UNCHANGED <<soa, capacity, pushed, storeVars, persistVars, shardVars, convVars>>

\* the caller takes the mutable view and writes nothing through it
SoA_view_mut(i) ==
    /\ soaRet' = [op |-> "view_mut", i |-> i, out |-> view_mut(soa, i)]
    /\ UNCHANGED <<soa, capacity, pushed, storeVars, persistVars, shardVars, convVars>>

\* iter() hands out an iterator; it borrows the Column Model, so that no
\* push comes between two of its steps: a push ends the borrow first
SoA_iter ==
    /\ soaRet' = [op |-> "iter", range |-> iter(soa), yielded |-> <<>>, ended |-> FALSE]
    /\ UNCHANGED <<soa, capacity, pushed, storeVars, persistVars, shardVars, convVars>>

\* next() on the iterator that iter() handed out
SoA_iter_next ==
    /\ soaRet.op = "iter"
    /\ ~soaRet.ended
    /\ LET n == iter_next(soa, soaRet.range)
       IN  soaRet' = [soaRet EXCEPT
                        !.range = n.range,
                        !.yielded = IF n.item.kind = "none" THEN @ ELSE Append(@, n.item),
                        !.ended = n.item.kind = "none"]
    /\ UNCHANGED <<soa, capacity, pushed, storeVars, persistVars, shardVars, convVars>>

\* the raw-array accessor of field f
SoA_raw_array(f) ==
    /\ soaRet' = [op |-> "raw_array", f |-> f, out |-> raw_array(soa, f)]
    /\ UNCHANGED <<soa, capacity, pushed, storeVars, persistVars, shardVars, convVars>>

SoA_len ==
    /\ soaRet' = [op |-> "len", ret |-> len(soa), asserts |-> equal_len_asserts(soa)]
    /\ UNCHANGED <<soa, capacity, pushed, storeVars, persistVars, shardVars, convVars>>

\* the values a caller writes into field f: the first and the third demo
\* order's
WriteValues(f) == {DemoOrders[1][f], DemoOrders[3][f]}

\* the caller takes view_mut(i) and writes v into its field f; i is within
\* the Column Model, or view_mut panics and nothing is written
SoA_write(i, f, v) ==
    /\ view_mut(soa, i).kind = "view_mut"
    /\ soa' = view_mut_write(soa, i, f, v)
    /\ soaRet' = [op |-> "write", i |-> i, f |-> f, v |-> v]
    /\ UNCHANGED <<capacity, pushed, storeVars, persistVars, shardVars, convVars>>

\* a Column Model is filled with the demo orders, in their order and over
\* again, and changed through mutable views
NextViewMut ==
    \/ SoA_push(DemoOrders[(Len(pushed) % Len(DemoOrders)) + 1])
    \/ \E i \in 0..MaxRows : \E f \in FieldSet : \E v \in WriteValues(f) : SoA_write(i, f, v)

NextSoA ==
    \/ \E cap \in 1..MaxCap : SoA_with_capacity(cap)
    \/ \E v \in Rows : SoA_push(v)
    \/ \E i \in 0..MaxRows : SoA_view(i)
    \/ \E i \in 0..MaxRows : SoA_view_mut(i)
    \/ SoA_len
    \/ SoA_iter
    \/ SoA_iter_next
    \/ \E f \in FieldSet : SoA_raw_array(f)

(***************************************************************************)
(* The generated Store (soa_macros/src/lib.rs, derive_soa_store): a handle *)
(* holding inner: Arc<OrderSoA>.  The state of the heap is a record st of  *)
(* the allocations (arcs) and of every handle's pointer (inner).           *)
(***************************************************************************)
Handles == 1..MaxHandles

\* one allocation per handle is the most that can be live
AllocIds == 1..MaxHandles

\* an allocation that is not in use, and one holding the Column Model s
Freed == [live |-> FALSE]

Alloc(s) == [live |-> TRUE, data |-> s]

\* Arc::strong_count: the handles pointing at allocation a
strong_count(st, a) == Cardinality({g \in Handles : st.inner[g] = a})

\* the allocation a new Arc gets: the first free one
FreshAlloc(st) ==
    CHOOSE a \in AllocIds :
        /\ ~st.arcs[a].live
        /\ \A b \in AllocIds : ~st.arcs[b].live => a <= b

MakeMutInPlace(st, h) == [arcs |-> st.arcs, inner |-> st.inner, copied |-> FALSE]

MakeMutAlwaysCopies(st, h) ==
    IF \A a \in AllocIds : st.arcs[a].live
    THEN [arcs |-> st.arcs, inner |-> st.inner, copied |-> FALSE]
    ELSE LET a == FreshAlloc(st)
             old == st.inner[h]
         IN  [arcs |-> [c \in AllocIds |->
                          IF c = a THEN st.arcs[old]
                          ELSE IF c = old /\ strong_count(st, old) = 1 THEN Freed
                          ELSE st.arcs[c]],
              inner |-> [st.inner EXCEPT ![h] = a],
              copied |-> TRUE]

\* Arc::make_mut(&mut self.inner): the handle's own allocation when it is the
\* only owner; otherwise a new allocation holding a clone of the Column Model
\* (the derived Clone copies every column), the old one losing this owner
make_mut(st, h) ==
    IF strong_count(st, st.inner[h]) = 1
    THEN [arcs |-> st.arcs, inner |-> st.inner, copied |-> FALSE]
    ELSE LET a == FreshAlloc(st)
         IN  [arcs |-> [st.arcs EXCEPT ![a] = Alloc(st.arcs[st.inner[h]].data)],
              inner |-> [st.inner EXCEPT ![h] = a],
              copied |-> TRUE]

\* fn kernel(&self): the Column Model the handle points to
kernel(st, h) == st.arcs[st.inner[h]].data

\* fn add(&mut self, v): make_mut, then push on the result
Store_add(st, h, v) ==
    LET m == make_mut(st, h)
        p == push(m.arcs[m.inner[h]].data, v)
    IN  [arcs |-> [m.arcs EXCEPT ![m.inner[h]] = Alloc(p.soa)],
         inner |-> m.inner, copied |-> m.copied, ret |-> p.ret]

\* what a caller does with the &mut OrderSoA that kernel_mut returns: nothing,
\* a push, or an assignment of a whole Column Model (*kernel_mut() = soa)
KernelWrites ==
    {[kind |-> "none"]}
        \cup {[kind |-> "push", v |-> v] : v \in StoreRows}
        \cup {[kind |-> "assign", soa |-> new]}

\* fn kernel_mut(&mut self): make_mut, then the caller's write through it
Store_kernel_mut(st, h, w) ==
    LET m == make_mut(st, h)
        cur == m.arcs[m.inner[h]].data
        nxt == IF w.kind = "push" THEN push(cur, w.v).soa
               ELSE IF w.kind = "assign" THEN w.soa
               ELSE cur
    IN  [arcs |-> [m.arcs EXCEPT ![m.inner[h]] = Alloc(nxt)],
         inner |-> m.inner, copied |-> m.copied]

\* Default::default(): Arc::new(OrderSoA::new())
Store_new(st, h) ==
    LET a == FreshAlloc(st)
    IN  [arcs |-> [st.arcs EXCEPT ![a] = Alloc(new)],
         inner |-> [st.inner EXCEPT ![h] = a]]

CloneStartsEmpty(st, h, g) ==
    LET a == FreshAlloc(st)
    IN  [arcs |-> [st.arcs EXCEPT ![a] = Alloc(new)],
         inner |-> [st.inner EXCEPT ![g] = a]]

\* Clone::clone: self.inner.clone(), one more owner of the same allocation
Store_clone(st, h, g) ==
    [arcs |-> st.arcs, inner |-> [st.inner EXCEPT ![g] = st.inner[h]]]

\* dropping a handle drops its Arc: the last owner frees the allocation
Store_drop(st, h) ==
    [arcs |-> IF strong_count(st, st.inner[h]) = 1
              THEN [st.arcs EXCEPT ![st.inner[h]] = Freed]
              ELSE st.arcs,
     inner |-> [st.inner EXCEPT ![h] = 0]]

heap == [arcs |-> arcs, inner |-> inner]

Live(h) == inner[h] # 0

StoreInit ==
    /\ arcs = [a \in AllocIds |-> IF a = 1 THEN Alloc(new) ELSE Freed]
    /\ inner = [h \in Handles |-> IF h = 1 THEN 1 ELSE 0]
    /\ storeOp = [op |-> "new", h |-> 1, copied |-> FALSE]

StoreNew(h) ==
    /\ ~Live(h)
    /\ arcs' = Store_new(heap, h).arcs
    /\ inner' = Store_new(heap, h).inner
    /\ storeOp' = [op |-> "new", h |-> h, copied |-> FALSE]
    /\ UNCHANGED <<soaVars, persistVars, shardVars, convVars>>

StoreClone(h, g) ==
    /\ Live(h)
    /\ ~Live(g)
    /\ arcs' = Store_clone(heap, h, g).arcs
    /\ inner' = Store_clone(heap, h, g).inner
    /\ storeOp' = [op |-> "clone", h |-> g, copied |-> FALSE, src |-> h]
    /\ UNCHANGED <<soaVars, persistVars, shardVars, convVars>>

StoreAdd(h, v) ==
    /\ Live(h)
    /\ len(kernel(heap, h)) < MaxStoreRows
    /\ arcs' = Store_add(heap, h, v).arcs
    /\ inner' = Store_add(heap, h, v).inner
    /\ storeOp' = [op |-> "add", h |-> h, copied |-> Store_add(heap, h, v).copied,
                   v |-> v, ret |-> Store_add(heap, h, v).ret]
    /\ UNCHANGED <<soaVars, persistVars, shardVars, convVars>>

StoreKernelMut(h, w) ==
    /\ Live(h)
    /\ w.kind = "push" => len(kernel(heap, h)) < MaxStoreRows
    /\ arcs' = Store_kernel_mut(heap, h, w).arcs
    /\ inner' = Store_kernel_mut(heap, h, w).inner
    /\ storeOp' = [op |-> "kernel_mut", h |-> h,
                   copied |-> Store_kernel_mut(heap, h, w).copied]
    /\ UNCHANGED <<soaVars, persistVars, shardVars, convVars>>

StoreDrop(h) ==
    /\ Live(h)
    /\ arcs' = Store_drop(heap, h).arcs
    /\ inner' = Store_drop(heap, h).inner
    /\ storeOp' = [op |-> "drop", h |-> h, copied |-> FALSE]
    /\ UNCHANGED <<soaVars, persistVars, shardVars, convVars>>

NextStore ==
    \/ \E h \in Handles : StoreNew(h)
    \/ \E h, g \in Handles : StoreClone(h, g)
    \/ \E h \in Handles, v \in StoreRows : StoreAdd(h, v)
    \/ \E h \in Handles, w \in KernelWrites : StoreKernelMut(h, w)
    \/ \E h \in Handles : StoreDrop(h)

(***************************************************************************)
(* The persistence boundary: results, the Arrow schema of OrderSoA and the *)
(* conversions between an OrderSoA and a RecordBatch                       *)
(* (example_app/src/persistence.rs).                                       *)
(***************************************************************************)
Ok(v) == [kind |-> "Ok", val |-> v]

Err(e) == [kind |-> "Err", err |-> e]

\* a panic unwinds the calling task: no value is returned
Panic == [kind |-> "Panic"]

None == [some |-> FALSE]

Some(x) == [some |-> TRUE, val |-> x]

Unit == "()"

RECURSIVE MapSeq(_, _)
\* iter().map(F).collect()
MapSeq(F(_), s) == IF s = <<>> THEN <<>> ELSE <<F(Head(s))>> \o MapSeq(F, Tail(s))

RECURSIVE SumSeq(_)
\* iter().sum()
SumSeq(s) == IF s = <<>> THEN 0 ELSE Head(s) + SumSeq(Tail(s))

\* impl ArrowSchemaGen for OrderSoA: the fields' names and Arrow types, in order
arrow_schema ==
    << [name |-> "order_id", type |-> "UInt64"],
       [name |-> "status", type |-> "UInt8"],
       [name |-> "payment_method", type |-> "UInt8"] >>

StatusCodesSwapped(status) ==
    CASE status = "Pending" -> 0
      [] status = "Processing" -> 1
      [] status = "Shipped" -> 3
      [] status = "Delivered" -> 2

\* impl From<OrderStatus> for u8
OrderStatus_into_u8(status) ==
    CASE status = "Pending" -> 0
      [] status = "Processing" -> 1
      [] status = "Shipped" -> 2
      [] status = "Delivered" -> 3

\* impl TryFrom<u8> for OrderStatus
OrderStatus_try_from(value) ==
    CASE value = 0 -> Ok("Pending")
      [] value = 1 -> Ok("Processing")
      [] value = 2 -> Ok("Shipped")
      [] value = 3 -> Ok("Delivered")
      [] OTHER -> Err("Invalid OrderStatus value")

\* impl From<PaymentMethod> for u8
PaymentMethod_into_u8(method) ==
    CASE method = "CreditCard" -> 0
      [] method = "PayPal" -> 1
      [] method = "BankTransfer" -> 2

PaymentTryFromDefaults(value) ==
    CASE value = 1 -> Ok("PayPal")
      [] value = 2 -> Ok("BankTransfer")
      [] OTHER -> Ok("CreditCard")

\* impl TryFrom<u8> for PaymentMethod
PaymentMethod_try_from(value) ==
    CASE value = 0 -> Ok("CreditCard")
      [] value = 1 -> Ok("PayPal")
      [] value = 2 -> Ok("BankTransfer")
      [] OTHER -> Err("Invalid PaymentMethod value")

\* RecordBatch::num_rows
num_rows(batch) == Len(batch.columns[1].values)

\* RecordBatch::try_new(schema, columns): one column per field, of the
\* field's type, all of one length
RecordBatch_try_new(schema, columns) ==
    IF /\ Len(columns) = Len(schema)
       /\ \A k \in DOMAIN columns :
             /\ columns[k].type = schema[k].type
             /\ Len(columns[k].values) = Len(columns[1].values)
    THEN Ok([schema |-> schema, columns |-> columns])
    ELSE Err("ArrowError")

ToRecordBatchPaymentFromStatus(s) ==
    RecordBatch_try_new(arrow_schema,
        << [type |-> "UInt64", values |-> s.order_id],
           [type |-> "UInt8", values |-> MapSeq(OrderStatus_into_u8, s.status)],
           [type |-> "UInt8",
            values |-> MapSeq(OrderStatus_into_u8, s.status)] >>)

\* impl ToArrow for OrderSoA: fn to_record_batch
to_record_batch(s) ==
    LET status_u8 == MapSeq(OrderStatus_into_u8, s.status)
        payment_u8 == MapSeq(PaymentMethod_into_u8, s.payment_method)
    IN  RecordBatch_try_new(arrow_schema,
            << [type |-> "UInt64", values |-> s.order_id],
               [type |-> "UInt8", values |-> status_u8],
               [type |-> "UInt8", values |-> payment_u8] >>)

\* downcast_array::<T>(batch.column(k), name): the column when it has type T
downcast_array(batch, k, type, column_name) ==
    IF batch.columns[k].type = type
    THEN Ok(batch.columns[k].values)
    ELSE Err([ColumnNotFound |-> column_name])

\* impl ToArrow for OrderSoA: fn from_record_batch.  The fields are taken in
\* order, each by downcast_array(batch.column(k), name)?: batch.column(k)
\* panics when the batch has no column k and the downcast returns its error,
\* whichever comes first; the enumeration codes are then decoded row by row,
\* the first bad one failing the call
from_record_batch(batch) ==
    LET cols == [k \in DOMAIN arrow_schema |->
                    downcast_array(batch, k, arrow_schema[k].type, arrow_schema[k].name)]
        bad == {k \in DOMAIN arrow_schema :
                   k > Len(batch.columns) \/ batch.columns[k].type # arrow_schema[k].type}
        first_bad == CHOOSE k \in bad : \A j \in bad : k <= j
    IN  IF bad # {}
        THEN IF first_bad > Len(batch.columns) THEN Panic ELSE cols[first_bad]
        ELSE
        LET statuses == MapSeq(OrderStatus_try_from, cols[2].val)
            payment_methods == MapSeq(PaymentMethod_try_from, cols[3].val)
            val(r) == r.val
        IN  IF \E i \in DOMAIN statuses :
                  statuses[i].kind = "Err" \/ payment_methods[i].kind = "Err"
            THEN Err("TypeConversion")
            ELSE Ok([order_id |-> cols[1].val,
                     status |-> MapSeq(val, statuses),
                     payment_method |-> MapSeq(val, payment_methods)])

RECURSIVE ConcatValues(_, _)
\* the values of column k of every batch, one after the other
ConcatValues(bs, k) ==
    IF bs = <<>> THEN <<>>
    ELSE Head(bs).columns[k].values \o ConcatValues(Tail(bs), k)

ConcatKeepsFirstOnly(schema, bs) == Ok(bs[1])

ConcatReversed(schema, bs) ==
    LET rev == [k \in DOMAIN bs |-> bs[Len(bs) + 1 - k]]
    IN  Ok([schema |-> schema,
            columns |-> [k \in DOMAIN schema |->
                           [type |-> schema[k].type, values |-> ConcatValues(rev, k)]]])

\* arrow::compute::concat_batches(schema, batches): column by column, in the
\* order of the batches; batches of another schema are an error
concat_batches(schema, bs) ==
    IF \E i \in DOMAIN bs : bs[i].schema # schema
    THEN Err("ArrowError")
    ELSE Ok([schema |-> schema,
             columns |-> [k \in DOMAIN schema |->
                            [type |-> schema[k].type, values |-> ConcatValues(bs, k)]]])

(***************************************************************************)
(* The data handed to the adapters, and what an adapter call returns.      *)
(***************************************************************************)
Tasks == 1..NumTasks

RECURSIVE FromRows(_)
\* the Column Model built by pushing the rows rs, in order, on new()
FromRows(rs) ==
    IF rs = <<>> THEN new
    ELSE push(FromRows(SubSeq(rs, 1, Len(rs) - 1)), rs[Len(rs)]).soa

\* the Column Models of at most n rows that hold consecutive demo orders
ModelsUpTo(n) ==
    LET slices == {s \in (1..Len(DemoOrders)) \X (0..Len(DemoOrders)) : s[2] - s[1] < n}
    IN  {FromRows(SubSeq(DemoOrders, s[1], s[2])) : s \in slices}

\* the arguments of save and append
Datasets == ModelsUpTo(MaxData)

\* a value whose to_record_batch fails: its columns differ in length, which
\* RecordBatch::try_new rejects
Unconvertible == [new EXCEPT ![first_field] = <<DemoOrders[1][first_field]>>]

\* the arguments of save_batches and append_batches: lists of Column Models
\* of at most one row and of values that do not convert
BatchLists == UNION {[1..k -> ModelsUpTo(1) \cup {Unconvertible}] : k \in 0..MaxBatches}

\* the batch sizes handed to load_batches
BatchSizes == 0..(MaxBatches + 1)

\* the arguments used when several tasks run at once
ConcDatasets == {FromRows(<<DemoOrders[1]>>), FromRows(<<DemoOrders[2], DemoOrders[3]>>)}

NoArg == [none |-> TRUE]

NoCall == [op |-> "none", data |-> NoArg]

NoLoc == [none |-> TRUE]

NoRet == [kind |-> "none"]

(***************************************************************************)
(* ArrowPersistence (soa_persistence/src/arrow_persistence.rs).            *)
(***************************************************************************)
ArrowWriters == {"save", "append", "clear", "save_batches", "append_batches"}

ArrowReaders ==
    {"load", "count", "get_batches", "load_batches", "memory_usage", "merge_batches",
     "is_empty", "query"}

Unlocked == [writer |-> 0, readers |-> {}]

\* RwLock::write succeeds when nobody holds the lock, RwLock::read when no
\* writer does
CanAcquire(l, mode) ==
    IF mode = "write" THEN l.writer = 0 /\ l.readers = {} ELSE l.writer = 0

Acquire(l, t, mode) ==
    IF mode = "write" THEN [l EXCEPT !.writer = t]
    ELSE [l EXCEPT !.readers = @ \cup {t}]

\* dropping the guard
Release(l, t) ==
    [writer |-> IF l.writer = t THEN 0 ELSE l.writer, readers |-> l.readers \ {t}]

SaveTakesReadLock(op) ==
    IF op \in ArrowWriters \ {"save"} THEN "write" ELSE "read"

AppendTakesReadLock(op) ==
    IF op \in ArrowWriters \ {"append"} THEN "write" ELSE "read"

\* which guard an operation takes on self.batches: write() or read()
LockMode(op) == IF op \in ArrowWriters THEN "write" ELSE "read"

SaveKeepsOldBatches(op) ==
    CASE op \in {"clear", "save_batches"} -> "a_clear"
      [] op \in {"save", "append"} -> "a_push"
      [] op = "append_batches" -> "a_push_each"
      [] op \in ArrowReaders -> "a_clone"

\* the first statement of an operation once it holds the guard
AfterLock(op) ==
    CASE op \in {"save", "clear", "save_batches"} -> "a_clear"
      [] op = "append" -> "a_push"
      [] op = "append_batches" -> "a_push_each"
      [] op \in ArrowReaders -> "a_clone"

\* the statement after batches.clear()
AfterClear(op) ==
    CASE op = "save" -> "a_push"
      [] op = "save_batches" -> "a_push_each"
      [] op = "clear" -> "a_unlock"

MergeWithoutEmptyCheck(bs) ==
    LET merged == concat_batches(arrow_schema, bs)
    IN  IF merged.kind = "Err" THEN merged ELSE Ok(Some(merged.val))

\* fn merge_batches, on the list get_batches returned
merge_batches(bs) ==
    IF bs = <<>> THEN Ok(None)
    ELSE IF Len(bs) = 1 THEN Ok(Some(bs[1]))
    ELSE LET merged == concat_batches(arrow_schema, bs)
         IN  IF merged.kind = "Err" THEN merged ELSE Ok(Some(merged.val))

\* fn load: merge_batches()?, then T::from_record_batch on the merged batch
Arrow_load(bs) ==
    LET merged_batch == merge_batches(bs)
    IN  IF merged_batch.kind # "Ok" THEN merged_batch
        ELSE IF ~merged_batch.val.some THEN Ok(None)
        ELSE LET data == from_record_batch(merged_batch.val.val)
             IN  IF data.kind = "Ok" THEN Ok(Some(data.val)) ELSE data

ArrowCountsBatches(bs) == Ok(Len(bs))

\* fn count: the sum of num_rows over the list get_batches returned
Arrow_count(bs) == Ok(SumSeq(MapSeq(num_rows, bs)))

\* the predicates handed to query: they accept every Column Model, none, the
\* ones with rows, or the ones that hold a delivered order
Predicates == {"all", "none", "has_rows", "has_delivered"}

Accepts(p, d) ==
    CASE p = "all" -> TRUE
      [] p = "none" -> FALSE
      [] p = "has_rows" -> len(d) > 0
      [] p = "has_delivered" -> \E i \in 1..len(d) : d.status[i] = "Delivered"

QueryIgnoresPredicate(loaded, p) == loaded

\* fn query of both adapters, on the result of self.load()
query(loaded, p) ==
    IF loaded.kind # "Ok" THEN loaded
    ELSE IF loaded.val.some /\ Accepts(p, loaded.val.val) THEN Ok(Some(loaded.val.val))
    ELSE Ok(None)

\* SoAPersistence::is_empty, on the result of self.count()
Persistence_is_empty(counted) ==
    IF counted.kind # "Ok" THEN counted ELSE Ok(counted.val = 0)

MemoryUsageOfFirstBatch(bs) ==
    Ok([total_rows |-> IF bs = <<>> THEN 0 ELSE num_rows(bs[1]), num_batches |-> Len(bs)])

\* fn memory_usage, on the list get_batches returned: the rows summed over
\* the batches and the number of batches.  The byte counts of MemoryStats,
\* which depend on how the buffers were allocated, are left out
memory_usage(bs) ==
    Ok([total_rows |-> SumSeq(MapSeq(num_rows, bs)), num_batches |-> Len(bs)])

\* what a reading operation makes of the list it cloned under the read guard
ArrowRead(op, bs) ==
    CASE op = "load" -> Arrow_load(bs)
      [] op = "count" -> Arrow_count(bs)
      [] op = "get_batches" -> Ok(bs)
      [] op = "memory_usage" -> memory_usage(bs)
      [] op = "merge_batches" -> merge_batches(bs)

RECURSIVE load_batches_loop(_, _, _)
\* `for batch in stored_batches`: decode the batch and push it on result,
\* then stop if result has reached batch_size elements
load_batches_loop(stored_batches, result, batch_size) ==
    IF stored_batches = <<>> THEN Ok(result)
    ELSE LET data == from_record_batch(Head(stored_batches))
         IN  IF data.kind # "Ok" THEN data
             ELSE LET pushed_on == Append(result, data.val)
                  IN  IF Len(pushed_on) >= batch_size THEN Ok(pushed_on)
                      ELSE load_batches_loop(Tail(stored_batches), pushed_on, batch_size)

\* fn load_batches, on the list get_batches returned
Arrow_load_batches(bs, batch_size) == load_batches_loop(bs, <<>>, batch_size)

\* the reading call c on the list it cloned: load_batches and query read
\* their argument, is_empty is the trait's method on count
ArrowReadCall(c, bs) ==
    CASE c.op = "load_batches" -> Arrow_load_batches(bs, c.data)
      [] c.op = "query" -> query(Arrow_load(bs), c.data)
      [] c.op = "is_empty" -> Persistence_is_empty(Arrow_count(bs))
      [] OTHER -> ArrowRead(c.op, bs)

(***************************************************************************)
(* ParquetPersistence (soa_persistence/src/parquet_persistence.rs): the    *)
(* file data.parquet is absent, or created but without a footer yet        *)
(* (empty or partly written), or closed with its rows and its footer.      *)
(***************************************************************************)
NoFile == [exists |-> FALSE]

Truncated == [exists |-> TRUE, complete |-> FALSE]

Written(batch) ==
    [exists |-> TRUE, complete |-> TRUE, batch |-> batch, num_rows |-> num_rows(batch)]

\* a task between File::create and writer.close() has the file open for writing
WritingPcs == {"p_write", "p_close"}

\* what a task that opens the file finds: no file, a file without a footer,
\* or a closed file
Seen(f) == IF ~f.exists THEN "absent" ELSE IF f.complete THEN "closed" ELSE "unfinished"

\* the record batches the reader yields: none for a file without rows
ReaderBatches(f) == IF f.num_rows = 0 THEN <<>> ELSE <<f.batch>>

\* the blocking closure of load: open the file, build the reader (which reads
\* the footer), collect the batches, concatenate and decode them; a panic of
\* the closure reaches the caller as the join error of spawn_blocking
Parquet_read(f) ==
    IF ~f.exists THEN Err("Io")
    ELSE IF ~f.complete THEN Err("ArrowError")
    ELSE LET bs == ReaderBatches(f)
         IN  IF bs = <<>> THEN Ok(None)
             ELSE LET combined_batch ==
                          IF Len(bs) = 1 THEN Ok(bs[1])
                          ELSE concat_batches(bs[1].schema, bs)
                  IN  IF combined_batch.kind # "Ok" THEN combined_batch
                      ELSE LET data == from_record_batch(combined_batch.val)
                           IN  IF data.kind = "Ok" THEN Ok(Some(data.val))
                               ELSE IF data = Panic THEN Err("TaskJoin")
                               ELSE data

CountDecodesRows(f) ==
    LET loaded == Parquet_read(f)
    IN  IF loaded.kind # "Ok" THEN loaded
        ELSE Ok(IF loaded.val.some THEN len(loaded.val.val) ELSE 0)

\* the blocking closure of count: open the file and read num_rows of the
\* footer metadata
Parquet_count(f) ==
    IF ~f.exists THEN Err("Io")
    ELSE IF ~f.complete THEN Err("ArrowError")
    ELSE Ok(f.num_rows)

AppendPutsNewFirst(existing, data) ==
    LET new_batch == to_record_batch(data)
    IN  IF ~existing.some THEN new_batch
        ELSE concat_batches(arrow_schema, <<new_batch.val, to_record_batch(existing.val).val>>)

\* fn append, between the load and the write: the batch of the existing data
\* followed by the batch of the new data, or the new batch alone
Parquet_combined(existing, data) ==
    LET new_batch == to_record_batch(data)
    IN  IF new_batch.kind # "Ok" THEN new_batch
        ELSE IF ~existing.some THEN new_batch
        ELSE LET existing_batch == to_record_batch(existing.val)
             IN  IF existing_batch.kind # "Ok" THEN existing_batch
                 ELSE concat_batches(existing_batch.val.schema,
                                     <<existing_batch.val, new_batch.val>>)

(***************************************************************************)
(* The history of committed writes, kept to state the claims and to bound  *)
(* the model: one entry per Column Model written since the last save or    *)
(* clear, with the number of rows the adapter held before that write.      *)
(***************************************************************************)
EntryRows(e) == len(e.data)

HistRows(h) == SumSeq(MapSeq(EntryRows, h))

Entries(op, list, prior) ==
    LET entry(d) == [op |-> op, data |-> d, prior |-> prior]
    IN  MapSeq(entry, list)

Commit(h, op, data) ==
    CASE op = "save" -> Entries(op, <<data>>, HistRows(h))
      [] op = "append" -> h \o Entries(op, <<data>>, HistRows(h))
      [] op = "clear" -> <<>>
      [] op = "save_batches" -> Entries(op, data, HistRows(h))
      [] op = "append_batches" -> h \o Entries(op, data, HistRows(h))

\* the appends that have been called and have not returned yet
Pending == {t \in Tasks : pc[t] \notin {"idle", "ret"} /\ call[t].op = "append"}

RECURSIVE PendingRows(_)
PendingRows(ts) ==
    IF ts = {} THEN 0
    ELSE LET t == CHOOSE u \in ts : TRUE
         IN  len(call[t].data) + PendingRows(ts \ {t})

\* the bounds on what an adapter holds, the appends under way counted in
Fits(op, data) ==
    CASE op = "append" ->
            /\ Len(hist) + Cardinality(Pending) < MaxBatches
            /\ HistRows(hist) + PendingRows(Pending) + len(data) <= MaxStored
      [] op = "append_batches" ->
            /\ Len(hist) + Len(data) <= MaxBatches
            /\ HistRows(hist) + SumSeq(MapSeq(len, data)) <= MaxStored
      [] op = "save_batches" -> SumSeq(MapSeq(len, data)) <= MaxStored
      [] OTHER -> TRUE

(***************************************************************************)
(* The steps of the adapters' operations.  Task t runs one call at a time; *)
(* a call is cut where it takes a lock, touches the shared batch list or   *)
(* touches the file.                                                       *)
(***************************************************************************)
PersistInit ==
    /\ backend = "none"
    /\ batches = <<>>
    /\ lock = Unlocked
    /\ file = NoFile
    /\ pc = [t \in Tasks |-> "idle"]
    /\ call = [t \in Tasks |-> NoCall]
    /\ loc = [t \in Tasks |-> NoLoc]
    /\ ret = [t \in Tasks |-> NoRet]
    /\ hist = <<>>
    /\ stable = <<>>

\* ArrowPersistence::new() or ParquetPersistence::new(base_path): the
\* adapter, its clones and the adapters on the same path are of this type
NewAdapter(b) ==
    /\ backend = "none"
    /\ backend' = b
    /\ UNCHANGED <<batches, lock, file, pc, call, loc, ret, hist, stable>>
    /\ UNCHANGED <<soaVars, storeVars, shardVars, convVars>>

ArrowCallClearsFirst(t, op, data) ==
    /\ backend = "arrow"
    /\ pc[t] = "idle"
    /\ Fits(op, data)
    /\ call' = [call EXCEPT ![t] = [op |-> op, data |-> data]]
    /\ LET batch == IF op \in {"save", "append"} THEN to_record_batch(data) ELSE Ok(NoArg)
       IN  IF batch.kind # "Ok"
           THEN /\ pc' = [pc EXCEPT ![t] = "ret"]
                /\ ret' = [ret EXCEPT ![t] = batch]
                /\ batches' = IF op = "save" THEN <<>> ELSE batches
                /\ UNCHANGED loc
           ELSE /\ pc' = [pc EXCEPT ![t] = "a_lock"]
                /\ loc' = [loc EXCEPT ![t] = [batch |-> batch.val, i |-> 1]]
                /\ UNCHANGED <<ret, batches>>
    /\ UNCHANGED <<backend, lock, file, hist, stable>>
    /\ UNCHANGED <<soaVars, storeVars, shardVars, convVars>>

\* a call on the in-memory adapter: save and append convert their argument
\* before they ask for the lock
Arrow_call(t, op, data) ==
    /\ backend = "arrow"
    /\ pc[t] = "idle"
    /\ Fits(op, data)
    /\ call' = [call EXCEPT ![t] = [op |-> op, data |-> data]]
    /\ LET batch == IF op \in {"save", "append"} THEN to_record_batch(data) ELSE Ok(NoArg)
       IN  IF batch.kind # "Ok"
           THEN /\ pc' = [pc EXCEPT ![t] = "ret"]
                /\ ret' = [ret EXCEPT ![t] = batch]
                /\ UNCHANGED loc
           ELSE /\ pc' = [pc EXCEPT ![t] = "a_lock"]
                /\ loc' = [loc EXCEPT ![t] = [batch |-> batch.val, i |-> 1]]
                /\ UNCHANGED ret
    /\ UNCHANGED <<backend, batches, lock, file, hist, stable>>
    /\ UNCHANGED <<soaVars, storeVars, shardVars, convVars>>

\* self.batches.write() or self.batches.read()
A_lock(t) ==
    /\ pc[t] = "a_lock"
    /\ CanAcquire(lock, LockMode(call[t].op))
    /\ lock' = Acquire(lock, t, LockMode(call[t].op))
    /\ pc' = [pc EXCEPT ![t] = AfterLock(call[t].op)]
    /\ UNCHANGED <<backend, batches, file, call, loc, ret, hist, stable>>
    /\ UNCHANGED <<soaVars, storeVars, shardVars, convVars>>

\* batches.clear()
A_clear(t) ==
    /\ pc[t] = "a_clear"
    /\ batches' = <<>>
    /\ pc' = [pc EXCEPT ![t] = AfterClear(call[t].op)]
    /\ UNCHANGED <<backend, lock, file, call, loc, ret, hist, stable>>
    /\ UNCHANGED <<soaVars, storeVars, shardVars, convVars>>

PushReplacesList(t) ==
    /\ pc[t] = "a_push"
    /\ batches' = <<loc[t].batch>>
    /\ pc' = [pc EXCEPT ![t] = "a_unlock"]
    /\ UNCHANGED <<backend, lock, file, call, loc, ret, hist, stable>>
    /\ UNCHANGED <<soaVars, storeVars, shardVars, convVars>>

\* batches.push(batch)
A_push(t) ==
    /\ pc[t] = "a_push"
    /\ batches' = Append(batches, loc[t].batch)
    /\ pc' = [pc EXCEPT ![t] = "a_unlock"]
    /\ UNCHANGED <<backend, lock, file, call, loc, ret, hist, stable>>
    /\ UNCHANGED <<soaVars, storeVars, shardVars, convVars>>

\* one turn of `for data in batches_data`: convert, then push; a failed
\* conversion returns the error at once, the guard being dropped on the way
A_push_each(t) ==
    /\ pc[t] = "a_push_each"
    /\ LET i == loc[t].i
           list == call[t].data
       IN  IF i > Len(list)
           THEN /\ pc' = [pc EXCEPT ![t] = "a_unlock"]
                /\ UNCHANGED <<batches, lock, loc, ret, hist, stable>>
           ELSE LET batch == to_record_batch(list[i])
                IN  IF batch.kind # "Ok"
                    THEN /\ pc' = [pc EXCEPT ![t] = "ret"]
                         /\ ret' = [ret EXCEPT ![t] = batch]
                         /\ lock' = Release(lock, t)
                         /\ hist' = Commit(hist, call[t].op, SubSeq(list, 1, i - 1))
                         /\ stable' = batches
                         /\ UNCHANGED <<batches, loc>>
                    ELSE /\ batches' = Append(batches, batch.val)
                         /\ loc' = [loc EXCEPT ![t].i = i + 1]
                         /\ UNCHANGED <<pc, lock, ret, hist, stable>>
    /\ UNCHANGED <<backend, file, call>>
    /\ UNCHANGED <<soaVars, storeVars, shardVars, convVars>>

\* Ok(()): the write guard is dropped as the operation returns
A_unlock(t) ==
    /\ pc[t] = "a_unlock"
    /\ lock' = Release(lock, t)
    /\ ret' = [ret EXCEPT ![t] = Ok(Unit)]
    /\ pc' = [pc EXCEPT ![t] = "ret"]
    /\ hist' = Commit(hist, call[t].op, call[t].data)
    /\ stable' = batches
    /\ UNCHANGED <<backend, batches, file, call, loc>>
    /\ UNCHANGED <<soaVars, storeVars, shardVars, convVars>>

CloneTakesList(t) ==
    /\ pc[t] = "a_clone"
    /\ lock' = Release(lock, t)
    /\ loc' = [loc EXCEPT ![t] = [snap |-> batches, stable |-> stable]]
    /\ ret' = [ret EXCEPT ![t] = ArrowReadCall(call[t], batches)]
    /\ pc' = [pc EXCEPT ![t] = "ret"]
    /\ batches' = <<>>
    /\ UNCHANGED <<backend, file, call, hist, stable>>
    /\ UNCHANGED <<soaVars, storeVars, shardVars, convVars>>

\* get_batches: batches.clone() under the read guard, which is dropped as it
\* returns; the rest of load / count works on the clone
A_clone(t) ==
    /\ pc[t] = "a_clone"
    /\ lock' = Release(lock, t)
    /\ loc' = [loc EXCEPT ![t] = [snap |-> batches, stable |-> stable]]
    /\ ret' = [ret EXCEPT ![t] = ArrowReadCall(call[t], batches)]
    /\ pc' = [pc EXCEPT ![t] = "ret"]
    /\ UNCHANGED <<backend, batches, file, call, hist, stable>>
    /\ UNCHANGED <<soaVars, storeVars, shardVars, convVars>>

\* the caller takes the result; the task is free for its next call
Return(t) ==
    /\ pc[t] = "ret"
    /\ pc' = [pc EXCEPT ![t] = "idle"]
    /\ call' = [call EXCEPT ![t] = NoCall]
    /\ loc' = [loc EXCEPT ![t] = NoLoc]
    /\ ret' = [ret EXCEPT ![t] = NoRet]
    /\ UNCHANGED <<backend, batches, lock, file, hist, stable>>
    /\ UNCHANGED <<soaVars, storeVars, shardVars, convVars>>

\* a call on the on-disk adapter: save converts its argument first; load,
\* append, count and clear start by asking whether the file exists
Parquet_call(t, op, data) ==
    /\ backend = "parquet"
    /\ pc[t] = "idle"
    /\ Fits(op, data)
    /\ call' = [call EXCEPT ![t] = [op |-> op, data |-> data]]
    /\ LET batch == IF op = "save" THEN to_record_batch(data) ELSE Ok(NoArg)
       IN  IF batch.kind # "Ok"
           THEN /\ pc' = [pc EXCEPT ![t] = "ret"]
                /\ ret' = [ret EXCEPT ![t] = batch]
                /\ UNCHANGED loc
           ELSE /\ pc' = [pc EXCEPT ![t] = IF op = "save" THEN "p_create" ELSE "p_exists"]
                /\ loc' = [loc EXCEPT ![t] =
                              [batch |-> batch.val, overlap |-> FALSE, seen |-> "unopened"]]
                /\ UNCHANGED ret
    /\ UNCHANGED <<backend, batches, lock, file, hist, stable>>
    /\ UNCHANGED <<soaVars, storeVars, shardVars, convVars>>

\* append, once it knows the existing data: the batch to write, or the error
P_combine(t, existing) ==
    LET combined_batch == Parquet_combined(existing, call[t].data)
    IN  IF combined_batch.kind # "Ok"
        THEN /\ pc' = [pc EXCEPT ![t] = "ret"]
             /\ ret' = [ret EXCEPT ![t] = combined_batch]
             /\ loc' = [loc EXCEPT ![t].seen = Seen(file)]
        ELSE /\ pc' = [pc EXCEPT ![t] = "p_create"]
             /\ loc' = [loc EXCEPT ![t].batch = combined_batch.val, ![t].seen = Seen(file)]
             /\ UNCHANGED ret

\* tokio::fs::try_exists(&file_path)
P_exists(t) ==
    /\ pc[t] = "p_exists"
    /\ IF file.exists
       THEN /\ pc' = [pc EXCEPT ![t] =
                        CASE call[t].op \in {"load", "append", "query"} -> "p_read"
                          [] call[t].op \in {"count", "is_empty"} -> "p_meta"
                          [] call[t].op = "clear" -> "p_remove"]
            /\ UNCHANGED <<loc, ret>>
       ELSE IF call[t].op = "append"
            THEN P_combine(t, None)
            ELSE /\ pc' = [pc EXCEPT ![t] = "ret"]
                 /\ ret' = [ret EXCEPT ![t] =
                               CASE call[t].op = "load" -> Ok(None)
                                 [] call[t].op = "query" -> query(Ok(None), call[t].data)
                                 [] call[t].op = "count" -> Ok(0)
                                 [] call[t].op = "is_empty" -> Persistence_is_empty(Ok(0))
                                 [] call[t].op = "clear" -> Ok(Unit)]
                 /\ loc' = [loc EXCEPT ![t].seen = Seen(file)]
    /\ UNCHANGED <<backend, batches, lock, file, call, hist, stable>>
    /\ UNCHANGED <<soaVars, storeVars, shardVars, convVars>>

\* the blocking closure of load, also run by append and by query, which
\* applies its predicate to what load returns
P_read(t) ==
    /\ pc[t] = "p_read"
    /\ LET existing == Parquet_read(file)
       IN  IF call[t].op = "append" /\ existing.kind = "Ok"
           THEN P_combine(t, existing.val)
           ELSE /\ pc' = [pc EXCEPT ![t] = "ret"]
                /\ ret' = [ret EXCEPT ![t] =
                              IF call[t].op = "query" THEN query(existing, call[t].data)
                              ELSE existing]
                /\ loc' = [loc EXCEPT ![t].seen = Seen(file)]
    /\ UNCHANGED <<backend, batches, lock, file, call, hist, stable>>
    /\ UNCHANGED <<soaVars, storeVars, shardVars, convVars>>

\* the blocking closure of count, also run by is_empty
P_meta(t) ==
    /\ pc[t] = "p_meta"
    /\ pc' = [pc EXCEPT ![t] = "ret"]
    /\ ret' = [ret EXCEPT ![t] =
                  IF call[t].op = "is_empty" THEN Persistence_is_empty(Parquet_count(file))
                  ELSE Parquet_count(file)]
    /\ loc' = [loc EXCEPT ![t].seen = Seen(file)]
    /\ UNCHANGED <<backend, batches, lock, file, call, hist, stable>>
    /\ UNCHANGED <<soaVars, storeVars, shardVars, convVars>>

\* File::create(&file_path): the file is created, or truncated to no bytes.
\* Writers that have the file open at the same time overlap.
P_create(t) ==
    /\ pc[t] = "p_create"
    /\ file' = Truncated
    /\ pc' = [pc EXCEPT ![t] = "p_write"]
    /\ loc' = [u \in Tasks |->
                 IF u = t
                 THEN [loc[t] EXCEPT !.overlap = \E v \in Tasks \ {t} : pc[v] \in WritingPcs]
                 ELSE IF pc[u] \in WritingPcs THEN [loc[u] EXCEPT !.overlap = TRUE]
                 ELSE loc[u]]
    /\ UNCHANGED <<backend, batches, lock, call, ret, hist, stable>>
    /\ UNCHANGED <<soaVars, storeVars, shardVars, convVars>>

\* ArrowWriter::try_new and writer.write(&batch): rows go to the writer and
\* to the file, which has no footer yet
P_write(t) ==
    /\ pc[t] = "p_write"
    /\ pc' = [pc EXCEPT ![t] = "p_close"]
    /\ UNCHANGED <<backend, batches, lock, file, call, loc, ret, hist, stable>>
    /\ UNCHANGED <<soaVars, storeVars, shardVars, convVars>>

\* writer.close(): the rest of the rows and the footer are written.  When
\* another writer had the file open meanwhile, the bytes of the two are
\* mixed: the file is this writer's, or it is not a readable file
P_close(t) ==
    /\ pc[t] = "p_close"
    /\ \E intact \in IF loc[t].overlap THEN {TRUE, FALSE} ELSE {TRUE} :
          file' = IF intact THEN Written(loc[t].batch) ELSE Truncated
    /\ pc' = [pc EXCEPT ![t] = "ret"]
    /\ ret' = [ret EXCEPT ![t] = Ok(Unit)]
    /\ hist' = Commit(hist, call[t].op, call[t].data)
    /\ UNCHANGED <<backend, batches, lock, call, loc, stable>>
    /\ UNCHANGED <<soaVars, storeVars, shardVars, convVars>>

\* tokio::fs::remove_file(&file_path)
P_remove(t) ==
    /\ pc[t] = "p_remove"
    /\ pc' = [pc EXCEPT ![t] = "ret"]
    /\ IF file.exists
       THEN /\ file' = NoFile
            /\ ret' = [ret EXCEPT ![t] = Ok(Unit)]
            /\ hist' = Commit(hist, "clear", NoArg)
       ELSE /\ ret' = [ret EXCEPT ![t] = Err("Io")]
            /\ UNCHANGED <<file, hist>>
    /\ UNCHANGED <<backend, batches, lock, call, loc, stable>>
    /\ UNCHANGED <<soaVars, storeVars, shardVars, convVars>>

\* the file system fails the write: File::create fails and leaves the file
\* as it was, or a later step fails and leaves what was written so far
P_io_fault(t) ==
    /\ pc[t] \in {"p_create", "p_write", "p_close"}
    /\ ret' = [ret EXCEPT ![t] = IF pc[t] = "p_create" THEN Err("Io") ELSE Err("ArrowError")]
    /\ pc' = [pc EXCEPT ![t] = "ret"]
    /\ UNCHANGED <<backend, batches, lock, file, call, loc, hist, stable>>
    /\ UNCHANGED <<soaVars, storeVars, shardVars, convVars>>

\* the batches of files that another program wrote with the schema of
\* OrderSoA: any u8 code may stand in the enumeration columns
ForeignBatches ==
    LET codes == 0..MaxCode
        rows == UNION {[1..k -> codes \X codes] : k \in 0..MaxForeignRows}
        col1(r) == 1
        col2(r) == r[1]
        col3(r) == r[2]
    IN  {[schema |-> arrow_schema,
          columns |-> << [type |-> "UInt64", values |-> MapSeq(col1, r)],
                         [type |-> "UInt8", values |-> MapSeq(col2, r)],
                         [type |-> "UInt8", values |-> MapSeq(col3, r)] >>] : r \in rows}

\* base_path/data.parquet is put there by another program, before the
\* adapter is used
P_foreign_file ==
    /\ backend = "parquet"
    /\ ~file.exists
    /\ \A t \in Tasks : pc[t] = "idle"
    /\ \E batch \in ForeignBatches : file' = Written(batch)
    /\ UNCHANGED <<backend, batches, lock, pc, call, loc, ret, hist, stable>>
    /\ UNCHANGED <<soaVars, storeVars, shardVars, convVars>>

\* the Arrow types a column of a foreign file may have
ArrowTypes == {"UInt64", "UInt32", "UInt8"}

\* the names a field of a foreign file may have
ForeignNames == {"order_id", "status", "payment_method", "id"}

\* the one-row batches of files that another program wrote with three fields
\* of different names:
\* the names, their order and the types may differ from the schema of
\* OrderSoA; each column has the type its field declares
SchemaBatches ==
    LET names == {ns \in [1..3 -> ForeignNames] : \A j, k \in 1..3 : ns[j] = ns[k] => j = k}
        schemas == {[k \in 1..3 |-> [name |-> ns[k], type |-> ts[k]]] :
                        ns \in names, ts \in [1..3 -> ArrowTypes]}
        row == <<2, 2, 1>>
    IN  {[schema |-> sc,
          columns |-> [k \in 1..3 |-> [type |-> sc[k].type, values |-> <<row[k]>>]]] :
            sc \in schemas}

\* base_path/data.parquet is put there by another program, with a schema of
\* its own
P_foreign_schema ==
    /\ backend = "parquet"
    /\ ~file.exists
    /\ \A t \in Tasks : pc[t] = "idle"
    /\ \E batch \in SchemaBatches : file' = Written(batch)
    /\ UNCHANGED <<backend, batches, lock, pc, call, loc, ret, hist, stable>>
    /\ UNCHANGED <<soaVars, storeVars, shardVars, convVars>>

(***************************************************************************)
(* Whole calls.  When no other task uses the adapter, a call is the        *)
(* sequence of its steps; these operators give what it leaves stored and   *)
(* what it returns.  They drive an in-memory and an on-disk adapter with   *)
(* the same calls (SpecBoth).                                              *)
(***************************************************************************)
\* ArrowPersistence::save / append / clear, on the batch list bs
Arrow_write(bs, op, data) ==
    IF op = "clear" THEN [batches |-> <<>>, ret |-> Ok(Unit)]
    ELSE LET batch == to_record_batch(data)
         IN  IF batch.kind # "Ok" THEN [batches |-> bs, ret |-> batch]
             ELSE [batches |-> IF op = "save" THEN <<batch.val>> ELSE Append(bs, batch.val),
                   ret |-> Ok(Unit)]

\* ParquetPersistence::load, on the file f
Parquet_load(f) == IF ~f.exists THEN Ok(None) ELSE Parquet_read(f)

\* ParquetPersistence::save / append / clear, on the file f
Parquet_write(f, op, data) ==
    IF op = "clear" THEN [file |-> NoFile, ret |-> Ok(Unit)]
    ELSE IF op = "save"
    THEN LET batch == to_record_batch(data)
         IN  IF batch.kind # "Ok" THEN [file |-> f, ret |-> batch]
             ELSE [file |-> Written(batch.val), ret |-> Ok(Unit)]
    ELSE LET existing == Parquet_load(f)
         IN  IF existing.kind # "Ok" THEN [file |-> f, ret |-> existing]
             ELSE LET combined_batch == Parquet_combined(existing.val, data)
                  IN  IF combined_batch.kind # "Ok" THEN [file |-> f, ret |-> combined_batch]
                      ELSE [file |-> Written(combined_batch.val), ret |-> Ok(Unit)]

ReadOps == {"load", "count", "is_empty", "query"}

\* a reading call on the in-memory adapter
Arrow_read_call(bs, op, p) ==
    CASE op = "load" -> Arrow_load(bs)
      [] op = "count" -> Arrow_count(bs)
      [] op = "is_empty" -> Persistence_is_empty(Arrow_count(bs))
      [] op = "query" -> query(Arrow_load(bs), p)

\* a reading call on the on-disk adapter
Parquet_read_call(f, op, p) ==
    CASE op = "load" -> Parquet_load(f)
      [] op = "count" -> IF ~f.exists THEN Ok(0) ELSE Parquet_count(f)
      [] op = "is_empty" ->
            Persistence_is_empty(IF ~f.exists THEN Ok(0) ELSE Parquet_count(f))
      [] op = "query" -> query(Parquet_load(f), p)

\* the tasks that hold the in-memory and the on-disk adapter of SpecBoth
ArrowSide == 1

ParquetSide == 2

\* the same save, append or clear on both adapters
Both_write(op, data) ==
    /\ backend = "both"
    /\ Fits(op, data)
    /\ LET a == Arrow_write(batches, op, data)
           d == Parquet_write(file, op, data)
       IN  /\ batches' = a.batches
           /\ file' = d.file
           /\ ret' = [ret EXCEPT ![ArrowSide] = a.ret, ![ParquetSide] = d.ret]
    /\ call' = [call EXCEPT ![ArrowSide] = [op |-> op, data |-> data],
                            ![ParquetSide] = [op |-> op, data |-> data]]
    /\ hist' = Commit(hist, op, data)
    /\ stable' = batches'
    /\ UNCHANGED <<backend, lock, pc, loc>>
    /\ UNCHANGED <<soaVars, storeVars, shardVars, convVars>>

\* the same load, count, is_empty or query on both adapters
Both_read(op, p) ==
    /\ backend = "both"
    /\ ret' = [ret EXCEPT ![ArrowSide] = Arrow_read_call(batches, op, p),
                          ![ParquetSide] = Parquet_read_call(file, op, p)]
    /\ call' = [call EXCEPT ![ArrowSide] = [op |-> op, data |-> p],
                            ![ParquetSide] = [op |-> op, data |-> p]]
    /\ UNCHANGED <<backend, batches, lock, file, pc, loc, hist, stable>>
    /\ UNCHANGED <<soaVars, storeVars, shardVars, convVars>>

\* an in-memory and an on-disk adapter, both new, get the same calls
NextBoth ==
    \/ NewAdapter("both")
    \/ \E op \in {"save", "append"}, data \in Datasets : Both_write(op, data)
    \/ Both_write("clear", NoArg)
    \/ \E op \in ReadOps \ {"query"} : Both_read(op, NoArg)
    \/ \E p \in Predicates : Both_read("query", p)

\* the task of the runs in which one task makes call after call
Main == 1

\* one task uses one adapter of either type
NextPersist ==
    \/ \E b \in {"arrow", "parquet"} : NewAdapter(b)
    \/ \E op \in {"save", "append"}, data \in Datasets : Arrow_call(Main, op, data)
    \/ \E op \in {"clear", "load", "count"} : Arrow_call(Main, op, NoArg)
    \/ \E op \in {"save", "append"}, data \in Datasets : Parquet_call(Main, op, data)
    \/ \E op \in {"clear", "load", "count"} : Parquet_call(Main, op, NoArg)
    \/ A_lock(Main)
    \/ A_clear(Main)
    \/ A_push(Main)
    \/ A_unlock(Main)
    \/ A_clone(Main)
    \/ P_exists(Main)
    \/ P_read(Main)
    \/ P_meta(Main)
    \/ P_create(Main)
    \/ P_write(Main)
    \/ P_close(Main)
    \/ P_remove(Main)
    \/ Return(Main)

\* one task uses the batch operations of the in-memory adapter
NextBatches ==
    \/ NewAdapter("arrow")
    \/ \E op \in {"save_batches", "append_batches"}, data \in BatchLists :
          Arrow_call(Main, op, data)
    \/ \E op \in {"load", "count", "get_batches"} : Arrow_call(Main, op, NoArg)
    \/ \E batch_size \in BatchSizes : Arrow_call(Main, "load_batches", batch_size)
    \/ A_lock(Main)
    \/ A_clear(Main)
    \/ A_push_each(Main)
    \/ A_unlock(Main)
    \/ A_clone(Main)
    \/ Return(Main)

\* one task reads, through the on-disk adapter, files that another program
\* wrote
NextForeign ==
    \/ NewAdapter("parquet")
    \/ P_foreign_file
    \/ \E op \in {"load", "count"} : Parquet_call(Main, op, NoArg)
    \/ P_exists(Main)
    \/ P_read(Main)
    \/ P_meta(Main)
    \/ Return(Main)

\* one task loads, through the on-disk adapter, files whose schema another
\* program chose
NextSchema ==
    \/ NewAdapter("parquet")
    \/ P_foreign_schema
    \/ Parquet_call(Main, "load", NoArg)
    \/ P_exists(Main)
    \/ P_read(Main)
    \/ Return(Main)

\* rows go into a Column Model by push and into Stores by add
NextIndex ==
    \/ SoA_push(DemoOrders[1])
    \/ \E h, g \in Handles : StoreClone(h, g)
    \/ \E h \in Handles, v \in StoreRows : StoreAdd(h, v)
    \/ \E h \in Handles : StoreDrop(h)

\* several tasks use clones of one in-memory adapter
NextArrowConc ==
    \/ NewAdapter("arrow")
    \/ \E t \in Tasks, data \in ConcDatasets : Arrow_call(t, "save", data)
    \/ \E t \in Tasks : Arrow_call(t, "append", FromRows(<<DemoOrders[1]>>))
    \/ \E t \in Tasks, op \in {"load", "count", "clear"} : Arrow_call(t, op, NoArg)
    \/ \E t \in Tasks : A_lock(t)
    \/ \E t \in Tasks : A_clear(t)
    \/ \E t \in Tasks : A_push(t)
    \/ \E t \in Tasks : A_unlock(t)
    \/ \E t \in Tasks : A_clone(t)
    \/ \E t \in Tasks : Return(t)

\* several tasks use on-disk adapters on one path, and the file system may
\* fail a write
NextDisk ==
    \/ NewAdapter("parquet")
    \/ \E t \in Tasks, data \in ConcDatasets : Parquet_call(t, "save", data)
    \/ \E t \in Tasks, op \in {"load", "count"} : Parquet_call(t, op, NoArg)
    \/ \E t \in Tasks : P_exists(t)
    \/ \E t \in Tasks : P_read(t)
    \/ \E t \in Tasks : P_meta(t)
    \/ \E t \in Tasks : P_create(t)
    \/ \E t \in Tasks : P_write(t)
    \/ \E t \in Tasks : P_close(t)
    \/ \E t \in Tasks : P_io_fault(t)
    \/ \E t \in Tasks : Return(t)

\* the Column Model task t appends: one demo order, its own while there are
\* enough of them
AppendOf(t) == FromRows(<<DemoOrders[((t - 1) % Len(DemoOrders)) + 1]>>)

\* several tasks append through on-disk adapters on one path
NextDiskAppend ==
    \/ NewAdapter("parquet")
    \/ \E t \in Tasks : Parquet_call(t, "append", AppendOf(t))
    \/ \E t \in Tasks : P_exists(t)
    \/ \E t \in Tasks : P_read(t)
    \/ \E t \in Tasks : P_create(t)
    \/ \E t \in Tasks : P_write(t)
    \/ \E t \in Tasks : P_close(t)
    \/ \E t \in Tasks : Return(t)

\* the arguments of save and append, one that does not convert among them
FailingDatasets == Datasets \cup {Unconvertible}

\* the batches of files that hold rows whose status code no OrderStatus has
UndecodableBatches ==
    LET col(type, v, k) == [type |-> type, values |-> [i \in 1..k |-> v]]
    IN  {[schema |-> arrow_schema,
          columns |-> <<col("UInt64", 1, k), col("UInt8", MaxCode, k), col("UInt8", 0, k)>>] :
            k \in 1..MaxForeignRows}

\* base_path/data.parquet is put there by another program and holds codes
\* that do not decode
P_undecodable_file ==
    /\ backend = "parquet"
    /\ ~file.exists
    /\ \A t \in Tasks : pc[t] = "idle"
    /\ \E batch \in UndecodableBatches : file' = Written(batch)
    /\ UNCHANGED <<backend, batches, lock, pc, call, loc, ret, hist, stable>>
    /\ UNCHANGED <<soaVars, storeVars, shardVars, convVars>>

\* one task saves and appends through one adapter of either type; some
\* arguments do not convert, some files do not decode and the file system
\* may fail a write
NextFailedWrite ==
    \/ \E b \in {"arrow", "parquet"} : NewAdapter(b)
    \/ P_undecodable_file
    \/ \E op \in {"save", "append"}, data \in FailingDatasets : Arrow_call(Main, op, data)
    \/ \E op \in {"save", "append"}, data \in FailingDatasets : Parquet_call(Main, op, data)
    \/ A_lock(Main)
    \/ A_clear(Main)
    \/ A_push(Main)
    \/ A_unlock(Main)
    \/ P_exists(Main)
    \/ P_read(Main)
    \/ P_create(Main)
    \/ P_write(Main)
    \/ P_close(Main)
    \/ P_io_fault(Main)
    \/ Return(Main)

\* the Column Model task t appends when clones of one adapter append at the
\* same time: one row from the odd tasks, two other rows from the even ones
ConcAppendOf(t) ==
    IF t % 2 = 1 THEN FromRows(<<DemoOrders[1]>>)
    ELSE FromRows(<<DemoOrders[2], DemoOrders[3]>>)

\* several tasks append and count through clones of one in-memory adapter
NextArrowAppend ==
    \/ NewAdapter("arrow")
    \/ \E t \in Tasks : Arrow_call(t, "append", ConcAppendOf(t))
    \/ \E t \in Tasks : Arrow_call(t, "count", NoArg)
    \/ \E t \in Tasks : A_lock(t)
    \/ \E t \in Tasks : A_push(t)
    \/ \E t \in Tasks : A_unlock(t)
    \/ \E t \in Tasks : A_clone(t)
    \/ \E t \in Tasks : Return(t)

\* one task uses the in-memory adapter and looks at its batch list
NextArrowList ==
    \/ NewAdapter("arrow")
    \/ \E op \in {"save", "append"}, data \in Datasets : Arrow_call(Main, op, data)
    \/ \E op \in {"clear", "count", "get_batches", "memory_usage"} : Arrow_call(Main, op, NoArg)
    \/ A_lock(Main)
    \/ A_clear(Main)
    \/ A_push(Main)
    \/ A_unlock(Main)
    \/ A_clone(Main)
    \/ Return(Main)

\* the task that only reads, in the runs in which two tasks read one adapter
Second == 2

Readers == {Main, Second}

\* what the writes of those runs store: no row, one row, two rows
ReadDatasets == ConcDatasets \cup {new}

\* a save, append or clear of the first task, begun when no read is under
\* way or waits to be taken by its caller
Write_call(op, data) ==
    /\ pc[Second] = "idle"
    /\ \/ Arrow_call(Main, op, data)
       \/ Parquet_call(Main, op, data)

\* the reading operations of the two adapters
ReadingOps == ReadOps \cup {"get_batches", "merge_batches", "memory_usage", "load_batches"}

\* no save, append or clear is under way
NoWriteUnderWay == \A u \in Readers : pc[u] # "idle" => call[u].op \in ReadingOps

\* a reading call of the traits, on the adapter of either type, begun when
\* no write is under way
Read_call(t, op, arg) ==
    /\ NoWriteUnderWay
    /\ \/ Arrow_call(t, op, arg)
       \/ Parquet_call(t, op, arg)

\* a reading call that only the in-memory adapter has, begun when no write
\* is under way
List_read_call(t, op, arg) ==
    /\ NoWriteUnderWay
    /\ Arrow_call(t, op, arg)

\* two tasks read one adapter of either type, the first one also writes; no
\* read begins during a write, and no write begins while the second task
\* has a read under way or a result in hand
NextReads ==
    \/ \E b \in {"arrow", "parquet"} : NewAdapter(b)
    \/ P_undecodable_file
    \/ \E op \in {"save", "append"}, data \in ReadDatasets : Write_call(op, data)
    \/ Write_call("clear", NoArg)
    \/ \E t \in Readers, op \in {"load", "count", "is_empty"} : Read_call(t, op, NoArg)
    \/ \E t \in Readers, p \in Predicates : Read_call(t, "query", p)
    \/ \E t \in Readers, op \in {"get_batches", "merge_batches", "memory_usage"} :
          List_read_call(t, op, NoArg)
    \/ \E t \in Readers, batch_size \in BatchSizes :
          List_read_call(t, "load_batches", batch_size)
    \/ \E t \in Readers : A_lock(t)
    \/ A_clear(Main)
    \/ A_push(Main)
    \/ A_unlock(Main)
    \/ \E t \in Readers : A_clone(t)
    \/ \E t \in Readers : P_exists(t)
    \/ \E t \in Readers : P_read(t)
    \/ \E t \in Readers : P_meta(t)
    \/ P_create(Main)
    \/ P_write(Main)
    \/ P_close(Main)
    \/ P_remove(Main)
    \/ \E t \in Readers : Return(t)

(***************************************************************************)
(* The Sharded Store that #[derive(SoAStore)] generates                    *)
(* (soa_macros/src/lib.rs): a Vec of Column Models and a row's shard       *)
(* chosen by the hash of its key field.  DefaultHasher::new() has fixed    *)
(* keys, so it is one function of the key; the model does not compute it:  *)
(* the value for a key is chosen when the key is first hashed and kept.    *)
(***************************************************************************)
\* #[soa_store(key = "order_id", ...)] on Order
shard_key == "order_id"

\* the rows added: two demo orders and a row with the key of the first
ShardRows ==
    {DemoOrders[1], DemoOrders[2], [DemoOrders[1] EXCEPT !.status = "Pending"]}

ShardKeys == {v[shard_key] : v \in ShardRows}

HashVals == 0..MaxHash

\* the value of a key that was not hashed yet
Unhashed == -1

\* h.finish() for the key, given the value `hv` the hasher computes: the
\* same value every time the key is hashed
finish(hm, key, hv) == IF hm[key] = Unhashed THEN hv ELSE hm[key]

ShardIdxFromRowCount(h, n) ==
    IF n = 0 THEN Panic
    ELSE Ok((h + SumSeq(MapSeq(len, shards))) % n)

ShardIdxAlwaysFirst(h, n) == IF n = 0 THEN Panic ELSE Ok(0)

\* fn shard_idx_from_key, h being h.finish() as usize: the remainder by n,
\* which panics for n = 0
shard_idx_from_key(h, n) == IF n = 0 THEN Panic ELSE Ok(h % n)

WithShardsAtLeastOne(n, cap_per) ==
    [i \in 1..(IF n = 0 THEN 1 ELSE n) |-> with_capacity(cap_per)]

\* fn with_shards(n, cap_per)
with_shards(n, cap_per) == [i \in 1..n |-> with_capacity(cap_per)]

AddPushesOnNextShard(s, h, v) ==
    LET n == Len(s)
        si == shard_idx_from_key(h, n)
    IN  IF si.kind # "Ok" THEN [shards |-> s, ret |-> si]
        ELSE LET at == ((si.val + 1) % n) + 1
                 pushed_row == push(s[at], v)
             IN  [shards |-> [s EXCEPT ![at] = pushed_row.soa],
                  ret |-> Ok(<<si.val, pushed_row.ret>>)]

\* fn add(v), h being the hash of v's key: (si, row), the row pushed on
\* shard si only; a panic leaves the store as it was
ShardedStore_add(s, h, v) ==
    LET n == Len(s)
        si == shard_idx_from_key(h, n)
    IN  IF si.kind # "Ok" THEN [shards |-> s, ret |-> si]
        ELSE LET pushed_row == push(s[si.val + 1], v)
             IN  [shards |-> [s EXCEPT ![si.val + 1] = pushed_row.soa],
                  ret |-> Ok(<<si.val, pushed_row.ret>>)]

\* fn shard_count()
shard_count(s) == Len(s)

\* fn shard(i): &self.shards[i].0, a checked index that panics past the end
shard(s, i) == IF i < Len(s) THEN [kind |-> "shard", soa |-> s[i + 1]] ELSE Panic

\* fn shard_mut(i): &mut self.shards[i].0
shard_mut(s, i) == IF i < Len(s) THEN [kind |-> "shard_mut", soa |-> s[i + 1]] ELSE Panic

ShardInit ==
    /\ shards = <<>>
    /\ hasher = [k \in ShardKeys |-> Unhashed]
    /\ shardOp = [op |-> "none"]

\* OrderShardedStore::with_shards(n, cap_per): the instance under test
Sharded_with_shards(n, cap_per) ==
    /\ shardOp.op = "none"
    /\ shards' = with_shards(n, cap_per)
    /\ shardOp' = [op |-> "with_shards", n |-> n]
    /\ UNCHANGED hasher
    /\ UNCHANGED <<soaVars, storeVars, persistVars, convVars>>

\* sharded.add(v)
Sharded_add(v) ==
    /\ shardOp.op # "none"
    /\ SumSeq(MapSeq(len, shards)) < MaxShardRows
    /\ \E hv \in HashVals :
          LET h == finish(hasher, v[shard_key], hv)
              added == ShardedStore_add(shards, h, v)
          IN  /\ hasher' = [hasher EXCEPT ![v[shard_key]] = h]
              /\ shards' = added.shards
              /\ shardOp' = [op |-> "add", v |-> v, ret |-> added.ret]
    /\ UNCHANGED <<soaVars, storeVars, persistVars, convVars>>

\* sharded.shard_count()
Sharded_shard_count ==
    /\ shardOp.op # "none"
    /\ shardOp' = [op |-> "shard_count", ret |-> shard_count(shards)]
    /\ UNCHANGED <<shards, hasher>>
    /\ UNCHANGED <<soaVars, storeVars, persistVars, convVars>>

\* sharded.shard(i)
Sharded_shard(i) ==
    /\ shardOp.op # "none"
    /\ shardOp' = [op |-> "shard", i |-> i, out |-> shard(shards, i)]
    /\ UNCHANGED <<shards, hasher>>
    /\ UNCHANGED <<soaVars, storeVars, persistVars, convVars>>

\* sharded.shard_mut(i); the caller writes nothing through the reference
Sharded_shard_mut(i) ==
    /\ shardOp.op # "none"
    /\ shardOp' = [op |-> "shard_mut", i |-> i, out |-> shard_mut(shards, i)]
    /\ UNCHANGED <<shards, hasher>>
    /\ UNCHANGED <<soaVars, storeVars, persistVars, convVars>>

NextSharded ==
    \/ \E n \in 0..MaxShards, cap_per \in 0..MaxCap : Sharded_with_shards(n, cap_per)
    \/ \E v \in ShardRows : Sharded_add(v)
    \/ Sharded_shard_count
    \/ \E i \in 0..MaxShards : Sharded_shard(i)
    \/ \E i \in 0..MaxShards : Sharded_shard_mut(i)

(***************************************************************************)
(* The enumeration codes that cross the persistence boundary               *)
(* (arrow_conversion.rs, example_app/src/persistence.rs), applied to       *)
(* columns as to_record_batch and from_record_batch apply them.            *)
(***************************************************************************)
\* the enumerated field types and their variants in declaration order
EnumTypes == {"OrderStatus", "PaymentMethod"}

Variants(T) == IF T = "OrderStatus" THEN OrderStatus ELSE PaymentMethod

\* fn enum_to_u8<T>(value): value.into()
enum_to_u8(T, value) ==
    IF T = "OrderStatus" THEN OrderStatus_into_u8(value) ELSE PaymentMethod_into_u8(value)

\* fn u8_to_enum<T>(value): T::try_from(value), the error mapped to
\* TypeConversion
u8_to_enum(T, value) ==
    LET r == IF T = "OrderStatus" THEN OrderStatus_try_from(value)
             ELSE PaymentMethod_try_from(value)
    IN  IF r.kind = "Ok" THEN r ELSE Err("TypeConversion")

\* the columns of at most n values drawn from the set S
ColumnsOf(S, n) == UNION {[1..k -> S] : k \in 0..n}

ConvInit == conv = [op |-> "none"]

\* a column of variants is encoded, as in to_record_batch
Enum_to_u8(T, values) ==
    /\ LET enc(v) == enum_to_u8(T, v)
       IN  conv' = [op |-> "enum_to_u8", T |-> T, values |-> values,
                    codes |-> MapSeq(enc, values)]
    /\ UNCHANGED <<soaVars, storeVars, persistVars, shardVars>>

\* a column of codes is decoded, as in from_record_batch
U8_to_enum(T, codes) ==
    /\ LET dec(c) == u8_to_enum(T, c)
       IN  conv' = [op |-> "u8_to_enum", T |-> T, codes |-> codes,
                    decoded |-> MapSeq(dec, codes)]
    /\ UNCHANGED <<soaVars, storeVars, persistVars, shardVars>>

\* batch with its column k and the field of that column taken out
WithoutColumn(batch, k) ==
    LET keep == [j \in 1..(Len(batch.columns) - 1) |-> IF j < k THEN j ELSE j + 1]
    IN  [schema |-> [j \in DOMAIN keep |-> batch.schema[keep[j]]],
         columns |-> [j \in DOMAIN keep |-> batch.columns[keep[j]]]]

\* the batches handed to from_record_batch: those of the schema of OrderSoA
\* that hold any codes, whole or with one field's column missing
DecodeBatches ==
    ForeignBatches \cup {WithoutColumn(b, k) : b \in ForeignBatches, k \in DOMAIN arrow_schema}

\* OrderSoA::from_record_batch(&batch), called on its own
Decode(batch) ==
    /\ conv' = [op |-> "from_record_batch", batch |-> batch, out |-> from_record_batch(batch)]
    /\ UNCHANGED <<soaVars, storeVars, persistVars, shardVars>>

\* batches are decoded one after the other
NextDecode == \E batch \in DecodeBatches : Decode(batch)

\* a column of variants is encoded and the codes are decoded
Enum_round_trip(T, values) ==
    /\ LET enc(v) == enum_to_u8(T, v)
           dec(c) == u8_to_enum(T, c)
           codes == MapSeq(enc, values)
       IN  conv' = [op |-> "round_trip", T |-> T, values |-> values,
                    codes |-> codes, decoded |-> MapSeq(dec, codes)]
    /\ UNCHANGED <<soaVars, storeVars, persistVars, shardVars>>

NextEnum ==
    \/ \E T \in EnumTypes :
          \E values \in ColumnsOf({Variants(T)[k] : k \in DOMAIN Variants(T)}, MaxRows) :
             Enum_to_u8(T, values)
    \/ \E T \in EnumTypes : \E codes \in ColumnsOf(0..MaxCode, MaxForeignRows) :
          U8_to_enum(T, codes)
    \/ \E T \in EnumTypes :
          \E values \in ColumnsOf({Variants(T)[k] : k \in DOMAIN Variants(T)}, MaxRows) :
             Enum_round_trip(T, values)

(***************************************************************************)
(* PersistentOrderStore (example_app/src/persistence.rs): an OrderStore    *)
(* and an in-memory adapter that no other handle or clone shares, so that  *)
(* each method is one whole call.                                          *)
(***************************************************************************)
\* the handle of the field `store`
StoreHandle == 1

AddPersistsByAppend(st, bs, order) ==
    LET added == Store_add(st, StoreHandle, order)
        saved == Arrow_write(bs, "append", kernel(added, StoreHandle))
    IN  [arcs |-> added.arcs, inner |-> added.inner, batches |-> saved.batches,
         ret |-> IF saved.ret.kind # "Ok" THEN saved.ret ELSE Ok(added.ret)]

\* fn add(order): self.store.add(order), then
\* self.persistence.save(self.store.kernel()).await?, then Ok(index)
PersistentOrderStore_add(st, bs, order) ==
    LET added == Store_add(st, StoreHandle, order)
        saved == Arrow_write(bs, "save", kernel(added, StoreHandle))
    IN  [arcs |-> added.arcs, inner |-> added.inner, batches |-> saved.batches,
         ret |-> IF saved.ret.kind # "Ok" THEN saved.ret ELSE Ok(added.ret)]

RECURSIVE add_batch_loop(_, _, _)
\* `for order in orders`: self.store.add(order), the index pushed on indices
add_batch_loop(st, orders, indices) ==
    IF orders = <<>> THEN [arcs |-> st.arcs, inner |-> st.inner, indices |-> indices]
    ELSE LET added == Store_add(st, StoreHandle, Head(orders))
         IN  add_batch_loop([arcs |-> added.arcs, inner |-> added.inner], Tail(orders),
                            Append(indices, added.ret))

\* fn add_batch(orders): the loop, then one save of the kernel
PersistentOrderStore_add_batch(st, bs, orders) ==
    LET added == add_batch_loop(st, orders, <<>>)
        saved == Arrow_write(bs, "save", kernel(added, StoreHandle))
    IN  [arcs |-> added.arcs, inner |-> added.inner, batches |-> saved.batches,
         ret |-> IF saved.ret.kind # "Ok" THEN saved.ret ELSE Ok(added.indices)]

\* fn load_from_storage: the loaded Column Model is assigned through
\* kernel_mut(), or nothing is when the adapter holds nothing
PersistentOrderStore_load_from_storage(st, bs) ==
    LET loaded == Arrow_load(bs)
    IN  IF loaded.kind # "Ok" THEN [arcs |-> st.arcs, inner |-> st.inner, ret |-> loaded]
        ELSE IF loaded.val.some
        THEN LET m == Store_kernel_mut(st, StoreHandle,
                                       [kind |-> "assign", soa |-> loaded.val.val])
             IN  [arcs |-> m.arcs, inner |-> m.inner, ret |-> Ok(TRUE)]
        ELSE [arcs |-> st.arcs, inner |-> st.inner, ret |-> Ok(FALSE)]

\* fn clear_all: self.store = OrderStore::new(), then persistence.clear()
PersistentOrderStore_clear_all(st, bs) ==
    LET dropped == Store_drop(st, StoreHandle)
        fresh == Store_new(dropped, StoreHandle)
    IN  [arcs |-> fresh.arcs, inner |-> fresh.inner,
         batches |-> Arrow_write(bs, "clear", NoArg).batches, ret |-> Ok(Unit)]

\* the orders handed to add_batch: up to MaxStoreRows of the store's rows
OrderLists == UNION {[1..k -> StoreRows] : k \in 0..MaxStoreRows}

\* what a method of the PersistentOrderStore leaves: the heap, the batch
\* list, and the call and its result
Persistent_step(op, after_arcs, after_inner, after_batches, result) ==
    /\ backend = "arrow"
    /\ arcs' = after_arcs
    /\ inner' = after_inner
    /\ batches' = after_batches
    /\ call' = [call EXCEPT ![Main] = [op |-> op, data |-> NoArg]]
    /\ ret' = [ret EXCEPT ![Main] = result]
    /\ UNCHANGED <<storeOp, backend, lock, file, pc, loc, hist, stable>>
    /\ UNCHANGED <<soaVars, shardVars, convVars>>

Persistent_add(order) ==
    /\ len(kernel(heap, StoreHandle)) < MaxStoreRows
    /\ LET r == PersistentOrderStore_add(heap, batches, order)
       IN  Persistent_step("add", r.arcs, r.inner, r.batches, r.ret)

Persistent_add_batch(orders) ==
    /\ len(kernel(heap, StoreHandle)) + Len(orders) <= MaxStoreRows
    /\ LET r == PersistentOrderStore_add_batch(heap, batches, orders)
       IN  Persistent_step("add_batch", r.arcs, r.inner, r.batches, r.ret)

\* kernel_mut(): the caller pushes a row on the Column Model or replaces it,
\* and nothing is persisted
Persistent_kernel_mut(w) ==
    /\ w.kind = "push" => len(kernel(heap, StoreHandle)) < MaxStoreRows
    /\ LET m == Store_kernel_mut(heap, StoreHandle, w)
       IN  Persistent_step("kernel_mut", m.arcs, m.inner, batches, Ok(Unit))

Persistent_load_from_storage ==
    /\ backend = "arrow"
    /\ LET r == PersistentOrderStore_load_from_storage(heap, batches)
       IN  /\ len(kernel(r, StoreHandle)) <= MaxStoreRows
           /\ Persistent_step("load_from_storage", r.arcs, r.inner, batches, r.ret)

\* fn save_to_storage
Persistent_save_to_storage ==
    /\ backend = "arrow"
    /\ LET saved == Arrow_write(batches, "save", kernel(heap, StoreHandle))
       IN  Persistent_step("save_to_storage", arcs, inner, saved.batches, saved.ret)

\* fn append_to_storage
Persistent_append_to_storage ==
    /\ Len(batches) < MaxBatches
    /\ LET saved == Arrow_write(batches, "append", kernel(heap, StoreHandle))
       IN  Persistent_step("append_to_storage", arcs, inner, saved.batches, saved.ret)

Persistent_clear_all ==
    /\ backend = "arrow"
    /\ LET r == PersistentOrderStore_clear_all(heap, batches)
       IN  Persistent_step("clear_all", r.arcs, r.inner, r.batches, r.ret)

\* fn storage_count: self.persistence.count()
Persistent_storage_count ==
    /\ backend = "arrow"
    /\ Persistent_step("storage_count", arcs, inner, batches, Arrow_count(batches))

\* fn len: self.store.kernel().len()
Persistent_len ==
    /\ backend = "arrow"
    /\ Persistent_step("len", arcs, inner, batches, Ok(len(kernel(heap, StoreHandle))))

\* one PersistentOrderStore, built by new()
NextPersistent ==
    \/ NewAdapter("arrow")
    \/ \E order \in StoreRows : Persistent_add(order)
    \/ \E orders \in OrderLists : Persistent_add_batch(orders)
    \/ \E w \in KernelWrites : Persistent_kernel_mut(w)
    \/ Persistent_load_from_storage
    \/ Persistent_save_to_storage
    \/ Persistent_append_to_storage
    \/ Persistent_clear_all
    \/ Persistent_storage_count
    \/ Persistent_len

(***************************************************************************)
(* The specifications.                                                     *)
(***************************************************************************)
Init == SoAInit /\ StoreInit /\ PersistInit /\ ShardInit /\ ConvInit

SpecSoA == Init /\ [][NextSoA]_vars

SpecStore == Init /\ [][NextStore]_vars

SpecPersist == Init /\ [][NextPersist]_vars

SpecBatches == Init /\ [][NextBatches]_vars

SpecArrowConc == Init /\ [][NextArrowConc]_vars

SpecDisk == Init /\ [][NextDisk]_vars

SpecSharded == Init /\ [][NextSharded]_vars

SpecForeign == Init /\ [][NextForeign]_vars

SpecEnum == Init /\ [][NextEnum]_vars

SpecBoth == Init /\ [][NextBoth]_vars

SpecDiskAppend == Init /\ [][NextDiskAppend]_vars

SpecIndex == Init /\ [][NextIndex]_vars

SpecSchema == Init /\ [][NextSchema]_vars

SpecFailedWrite == Init /\ [][NextFailedWrite]_vars

SpecArrowAppend == Init /\ [][NextArrowAppend]_vars

SpecArrowList == Init /\ [][NextArrowList]_vars

SpecReads == Init /\ [][NextReads]_vars

SpecViewMut == Init /\ [][NextViewMut]_vars

SpecDecode == Init /\ [][NextDecode]_vars

SpecPersistent == Init /\ [][NextPersistent]_vars

Next == NextSoA \/ NextStore \/ NextPersist \/ NextBatches \/ NextArrowConc \/ NextDisk \/ NextSharded \/ NextForeign \/ NextEnum \/ NextBoth \/ NextSchema \/ NextIndex \/ NextDiskAppend \/ NextFailedWrite \/ NextArrowAppend \/ NextArrowList \/ NextReads \/ NextViewMut \/ NextDecode \/ NextPersistent

Spec == Init /\ [][Next]_vars

(***************************************************************************)
(* Claims about the Column Model (SpecSoA).                                *)
(***************************************************************************)
\* C1: after any sequence of push calls on a Column Model built by new() or
\* with_capacity(n), len() is the number of pushes performed and every
\* column's length is len().
C1_LenCountsPushes ==
    /\ len(soa) = Len(pushed)
    /\ \A f \in FieldSet : Len(soa[f]) = len(soa)
    /\ soaRet.op = "len" => soaRet.ret = Len(pushed) /\ soaRet.asserts

C1_Witness ==
    /\ capacity > 0
    /\ Len(pushed) >= 2
    /\ soaRet.op = "len"
    /\ soaRet.ret = Len(pushed)

\* C2: for every i < len(), view(i) returns in every field the value handed
\* to the (i+1)-th push, however many pushes followed.
C2_ViewReturnsPushedRow ==
    /\ \A i \in 0..(len(soa) - 1) :
          view(soa, i) = [kind |-> "view", row |-> pushed[i + 1]]
    /\ (soaRet.op = "view" /\ soaRet.i < len(soa)) =>
          soaRet.out = [kind |-> "view", row |-> pushed[soaRet.i + 1]]

C2_Witness ==
    /\ soaRet.op = "view"
    /\ soaRet.i = 0
    /\ len(soa) >= 3
    /\ soaRet.out = [kind |-> "view", row |-> pushed[1]]
    /\ pushed[1] # pushed[2]
    /\ pushed[1] # pushed[3]

(***************************************************************************)
(* Claims about the Store (SpecStore).                                     *)
(***************************************************************************)
\* the Column Model handle g observes, and the owners of its allocation
KernelOf(g) == kernel(heap, g)

Owners(g) == strong_count(heap, inner[g])

\* the same in the state a step leads to
heapAfter == [arcs |-> arcs', inner |-> inner']

KernelAfter(g) == kernel(heapAfter, g)

OwnersAfter(g) == strong_count(heapAfter, inner'[g])

\* C3: a write (add or kernel_mut) through one Store handle leaves what every
\* other handle's kernel() holds unchanged, and an add makes the writer's
\* kernel() one row longer: S1 = S0.clone(), S1.add(r) leaves S0 with its k
\* rows and S1 with k + 1.
C3_WriteLeavesOtherHandles ==
    [][ storeOp'.op \in {"add", "kernel_mut"} =>
          /\ \A g \in Handles \ {storeOp'.h} :
                Live(g) => /\ inner'[g] = inner[g]
                           /\ KernelAfter(g) = KernelOf(g)
          /\ storeOp'.op = "add" =>
                len(KernelAfter(storeOp'.h)) = len(KernelOf(storeOp'.h)) + 1
      ]_storeVars

C3_Witness ==
    /\ storeOp.op = "add"
    /\ storeOp.copied
    /\ \E g \in Handles \ {storeOp.h} :
          /\ Live(g)
          /\ len(KernelOf(g)) >= 1
          /\ len(KernelOf(storeOp.h)) = len(KernelOf(g)) + 1

\* C4: a write through a handle copies the Column Model into a new allocation
\* exactly when another handle shares it at that moment; after the write the
\* writer is the only owner of the allocation it points to; a sole owner is
\* written in place, in the allocation it already had.
C4_CopyIffShared ==
    [][ storeOp'.op \in {"add", "kernel_mut"} =>
          LET h == storeOp'.h
              shared == Owners(h) > 1
          IN  /\ storeOp'.copied <=> shared
              /\ inner'[h] # inner[h] <=> shared
              /\ OwnersAfter(h) = 1
              /\ shared => /\ ~arcs[inner'[h]].live
                           /\ arcs'[inner[h]] = arcs[inner[h]]
              /\ \A a \in AllocIds \ {inner'[h]} : arcs'[a] = arcs[a]
      ]_storeVars

C4_Witness ==
    /\ storeOp.op = "kernel_mut"
    /\ storeOp.copied
    /\ Owners(storeOp.h) = 1
    /\ \E g \in Handles \ {storeOp.h} : Live(g) /\ KernelOf(g) # KernelOf(storeOp.h)

C4_WitnessInPlace ==
    /\ storeOp.op = "add"
    /\ ~storeOp.copied
    /\ len(KernelOf(storeOp.h)) >= 2

(***************************************************************************)
(* Persistence round trips (claims C5 to C7), checked under SpecPersist:   *)
(* one task, one adapter of either type, no other writer.                  *)
(***************************************************************************)
\* a load of the running task has returned
LoadReturned(t) == pc[t] = "ret" /\ call[t].op = "load"

CountReturned(t) == pc[t] = "ret" /\ call[t].op = "count"

\* the rows a load handed back: those of the Column Model in Some, none for
\* None
LoadedRows(r) == IF r.val.some THEN r.val.val ELSE new

RECURSIVE Stored(_)
\* the rows the committed writes left: the datasets of the history, one after
\* the other
Stored(h) ==
    IF h = <<>> THEN new
    ELSE LET before == Stored(SubSeq(h, 1, Len(h) - 1))
         IN  [f \in FieldSet |-> before[f] \o h[Len(h)].data[f]]

\* the last committed write was save(D) on an adapter that held `prior` rows
SavedLast == Len(hist) = 1 /\ hist[1].op = "save"

\* C5: on either backend, when save(D) of a non-empty D is the last write
\* before a load, the load returns Some of a Column Model equal to D: the
\* same rows in the same order with the same value in every field.
C5_SaveLoadRoundTrip ==
    \A t \in Tasks :
        LoadReturned(t) /\ SavedLast /\ ~is_empty(hist[1].data)
            => ret[t] = Ok(Some(hist[1].data))

C5_Witness ==
    /\ backend = "parquet"
    /\ LoadReturned(Main)
    /\ SavedLast
    /\ len(hist[1].data) = MaxData
    /\ ret[Main] = Ok(Some(FromRows(SubSeq(DemoOrders, 2, 3))))

\* C6: on either backend, once save(D) has succeeded, whatever the adapter
\* held before, load returns exactly the rows of D and count returns
\* D.len(): nothing of the earlier content remains.
C6_SaveReplaces ==
    \A t \in Tasks :
        /\ LoadReturned(t) /\ SavedLast
               => ret[t].kind = "Ok" /\ LoadedRows(ret[t]) = hist[1].data
        /\ CountReturned(t) /\ SavedLast
               => ret[t] = Ok(len(hist[1].data))

C6_Witness ==
    /\ backend = "arrow"
    /\ CountReturned(Main)
    /\ SavedLast
    /\ hist[1].prior > len(hist[1].data)
    /\ len(hist[1].data) > 0
    /\ ret[Main] = Ok(len(hist[1].data))

\* C7: on either backend, a load after appends returns the rows of every
\* dataset written since the last save or clear, dataset after dataset in
\* the order of the writes and each dataset's rows in their own order; after
\* append(A) and append(B) on an empty adapter that is A's rows, then B's.
C7_AppendConcatenates ==
    \A t \in Tasks :
        LoadReturned(t) /\ hist # <<>> /\ hist[Len(hist)].op = "append"
            => /\ ret[t].kind = "Ok"
               /\ LoadedRows(ret[t]) = Stored(hist)

C7_Witness ==
    /\ backend = "arrow"
    /\ LoadReturned(Main)
    /\ Len(hist) = 2
    /\ hist[1].op = "append" /\ hist[2].op = "append"
    /\ hist[1].data = FromRows(SubSeq(DemoOrders, 2, 3))
    /\ hist[2].data = FromRows(SubSeq(DemoOrders, 1, 1))
    /\ ret[Main] = Ok(Some(FromRows(<<DemoOrders[2], DemoOrders[3], DemoOrders[1]>>)))

C7_WitnessOnDisk ==
    /\ backend = "parquet"
    /\ LoadReturned(Main)
    /\ Len(hist) = 2
    /\ hist[1].op = "append" /\ hist[2].op = "append"
    /\ ret[Main] = Ok(Some(FromRows(<<DemoOrders[2], DemoOrders[3], DemoOrders[1]>>)))

(***************************************************************************)
(* What a reader sees while a save is under way (claims C8 and C9).        *)
(***************************************************************************)
\* a load or a count of task t on the on-disk adapter has returned
DiskReadReturned(t) == pc[t] = "ret" /\ call[t].op \in {"load", "count"}

\* C8: on the on-disk backend save(D) is atomic for the caller: a load or a
\* count that runs while a save is under way, or after a save failed partway,
\* finds the complete previous content or the complete new content, never a
\* file that is empty, truncated or partly written.
C8_SaveOnDiskIsAtomic ==
    \A t \in Tasks : DiskReadReturned(t) => loc[t].seen # "unfinished"

\* a reading operation of task t on the in-memory adapter has returned
ArrowReadReturned(t) == pc[t] = "ret" /\ call[t].op \in ArrowReaders

\* the tasks that hold the write guard, between write() and the drop
WriteHolders == {t \in Tasks : pc[t] \in {"a_clear", "a_push", "a_push_each", "a_unlock"}}

\* the tasks that hold a read guard, between read() and the drop
ReadHolders == {t \in Tasks : pc[t] = "a_clone"}

\* C9: on the in-memory backend, a load or count that overlaps a save(D)
\* over old content O works on the batch list as the last completed write
\* left it, all of O or all of D: never the empty list between the clear
\* and the push, never a mix.
C9_ReaderSeesCommittedList ==
    \A t \in Tasks : ArrowReadReturned(t) => loc[t].snap = loc[t].stable

C9_Witness ==
    \E t \in Tasks, u \in Tasks :
        /\ ArrowReadReturned(t) /\ call[t].op = "load"
        /\ loc[t].snap # <<>>
        /\ ret[t].kind = "Ok" /\ ret[t].val.some
        /\ call[u].op = "save" /\ pc[u] = "a_push"
        /\ batches = <<>>
        /\ to_record_batch(call[u].data).val # loc[t].snap[1]

C10_ReadersTogether == Cardinality(ReadHolders) >= 2

(***************************************************************************)
(* An adapter that holds nothing (claim C11), checked under SpecPersist.   *)
(***************************************************************************)
ClearReturned(t) == pc[t] = "ret" /\ call[t].op = "clear"

\* C11: on either backend, while the adapter holds no content (nothing was
\* stored yet, or clear ran after the last save or append) load returns
\* Ok(None) and count returns Ok(0); and clear returns Ok(()), also when
\* nothing is stored.
C11_EmptyAdapter ==
    \A t \in Tasks :
        /\ LoadReturned(t) /\ hist = <<>> => ret[t] = Ok(None)
        /\ CountReturned(t) /\ hist = <<>> => ret[t] = Ok(0)
        /\ ClearReturned(t) => ret[t] = Ok(Unit) /\ hist = <<>>

\* a clear on the on-disk adapter that found no file
C11_Witness ==
    /\ backend = "parquet"
    /\ ClearReturned(Main)
    /\ loc[Main].seen = "absent"
    /\ ret[Main] = Ok(Unit)
    /\ file = NoFile

\* a load on the in-memory adapter that found an empty list
C11_WitnessLoad ==
    /\ backend = "arrow"
    /\ LoadReturned(Main)
    /\ hist = <<>>
    /\ ret[Main] = Ok(None)

(***************************************************************************)
(* The Sharded Store (claims C12 and C13), checked under SpecSharded.      *)
(***************************************************************************)
\* the shards (0-based) that hold a row with key k
ShardsHolding(k) ==
    {i \in 0..(Len(shards) - 1) :
        \E j \in 1..len(shards[i + 1]) : shards[i + 1][shard_key][j] = k}

\* the last operation was an add that returned (shard_index, row_index)
AddReturned == shardOp.op = "add" /\ shardOp.ret.kind = "Ok"

\* C12: within one Sharded Store, rows with equal keys are all in one
\* shard, whatever was added before or between, and every add reports the
\* index of that shard.
C12_SameKeySameShard ==
    /\ \A k \in ShardKeys : Cardinality(ShardsHolding(k)) <= 1
    /\ AddReturned => ShardsHolding(shardOp.v[shard_key]) = {shardOp.ret.val[1]}

C12_Witness ==
    /\ Len(shards) = MaxShards
    /\ AddReturned
    /\ \E i \in 1..Len(shards) :
          /\ len(shards[i]) = 2
          /\ shards[i][shard_key][1] = shards[i][shard_key][2]
          /\ shards[i].status[1] # shards[i].status[2]
    /\ \E i \in 1..Len(shards) : len(shards[i]) = 1

\* C13: an add that returns (shard_index, row_index) has appended the row
\* to the shard numbered hash(key) mod n, has left every other shard as it
\* was, and row_index is that shard's len() - 1 after the push.
C13_AddPushesOneShard ==
    [][shardOp'.op = "add" /\ shardOp'.ret.kind = "Ok" =>
          LET v == shardOp'.v
              n == Len(shards)
              si == hasher'[v[shard_key]] % n
          IN  /\ Len(shards') = n
              /\ \A f \in FieldSet : shards'[si + 1][f] = Append(shards[si + 1][f], v[f])
              /\ \A i \in 1..n : i # si + 1 => shards'[i] = shards[i]
              /\ shardOp'.ret.val = <<si, len(shards'[si + 1]) - 1>>
     ]_shardVars

C13_Witness ==
    /\ AddReturned
    /\ shardOp.ret.val = <<1, 1>>
    /\ len(shards[1]) = 1
    /\ len(shards[2]) = 2

(***************************************************************************)
(* Decoding enumeration codes (claim C14), checked under SpecForeign: the  *)
(* stored batch is any batch of the schema, written by another program.    *)
(***************************************************************************)
\* the codes that stand for a variant
StatusCodes == 0..(Len(OrderStatus) - 1)

PaymentCodes == 0..(Len(PaymentMethod) - 1)

\* some row of the batch carries a code outside the variants of its column
HasBadCode(batch) ==
    \/ \E i \in 1..num_rows(batch) : batch.columns[2].values[i] \notin StatusCodes
    \/ \E i \in 1..num_rows(batch) : batch.columns[3].values[i] \notin PaymentCodes

\* C14: a load of a stored batch in which some row carries an enumeration
\* code outside the declared variants fails as a whole with TypeConversion:
\* no variant is put in its place and no Column Model is returned.
C14_BadCodeFailsLoad ==
    \A t \in Tasks :
        LoadReturned(t) /\ file.exists /\ file.complete /\ HasBadCode(file.batch)
            => ret[t] = Err("TypeConversion")

\* the first row is good, the second carries payment code 3, which is a
\* code of OrderStatus but not of PaymentMethod
C14_Witness ==
    /\ LoadReturned(Main)
    /\ file.exists /\ file.complete
    /\ num_rows(file.batch) = 2
    /\ file.batch.columns[2].values = <<3, 3>>
    /\ file.batch.columns[3].values = <<2, 3>>
    /\ ret[Main] = Err("TypeConversion")

(***************************************************************************)
(* The enumeration codes (claim C15), checked under SpecEnum.              *)
(***************************************************************************)
\* the place of variant v in the declaration of T, counted from 1
Declared(T, v) == CHOOSE k \in DOMAIN Variants(T) : Variants(T)[k] = v

\* C15: for every variant v of OrderStatus and PaymentMethod, decoding the
\* code of v gives v; the k-th declared variant has code k - 1, so distinct
\* variants have distinct codes.
C15_EnumCodesRoundTrip ==
    conv.op = "round_trip" =>
        /\ Len(conv.codes) = Len(conv.values)
        /\ Len(conv.decoded) = Len(conv.values)
        /\ \A i \in DOMAIN conv.values :
              /\ conv.decoded[i] = Ok(conv.values[i])
              /\ conv.codes[i] = Declared(conv.T, conv.values[i]) - 1
              /\ \A j \in DOMAIN conv.values :
                    conv.values[i] # conv.values[j] => conv.codes[i] # conv.codes[j]

C15_Witness ==
    /\ conv.op = "round_trip"
    /\ conv.T = "OrderStatus"
    /\ conv.values = <<"Delivered", "Pending", "Shipped">>
    /\ conv.codes = <<3, 0, 2>>
    /\ conv.decoded = <<Ok("Delivered"), Ok("Pending"), Ok("Shipped")>>

C15_WitnessPayment ==
    /\ conv.op = "round_trip"
    /\ conv.T = "PaymentMethod"
    /\ conv.values = <<"BankTransfer", "CreditCard", "PayPal">>
    /\ conv.codes = <<2, 0, 1>>

(***************************************************************************)
(* The two backends under the same calls (claim C16), checked under        *)
(* SpecBoth.                                                               *)
(***************************************************************************)
RECURSIVE ArrowReplay(_)
\* the batch list whole calls leave after the committed writes of h
ArrowReplay(h) ==
    IF h = <<>> THEN <<>>
    ELSE Arrow_write(ArrowReplay(SubSeq(h, 1, Len(h) - 1)),
                     h[Len(h)].op, h[Len(h)].data).batches

RECURSIVE ParquetReplay(_)
\* the file whole calls leave after the committed writes of h
ParquetReplay(h) ==
    IF h = <<>> THEN NoFile
    ELSE Parquet_write(ParquetReplay(SubSeq(h, 1, Len(h) - 1)),
                       h[Len(h)].op, h[Len(h)].data).file

\* Under SpecPersist, where one task makes call after call, the steps of the
\* calls leave and return what the whole calls do.
WholeCallsAgreeWithSteps ==
    /\ (backend = "arrow" /\ pc[Main] \in {"idle", "ret"})
            => /\ batches = ArrowReplay(hist)
               /\ pc[Main] = "ret" /\ call[Main].op \in {"load", "count"}
                    => ret[Main] = Arrow_read_call(batches, call[Main].op, NoArg)
    /\ (backend = "parquet" /\ pc[Main] \in {"idle", "ret"})
            => /\ file.exists => file = ParquetReplay(hist)
               /\ ~file.exists => HistRows(hist) = 0
               /\ pc[Main] = "ret" /\ call[Main].op \in {"load", "count"}
                    => ret[Main] = Parquet_read_call(file, call[Main].op, NoArg)

\* both adapters have answered the same reading call
BothRead == backend = "both" /\ call[ArrowSide].op \in ReadOps

\* C16: an in-memory and an on-disk adapter that started with nothing
\* stored and got the same save, append and clear calls, empty Column
\* Models included, return the same from load, count, is_empty and query.
C16_BackendsAgree == BothRead => ret[ArrowSide] = ret[ParquetSide]

\* the backends agree whenever the calls left rows stored, or nothing at all
C16_AgreeOnStoredRows ==
    BothRead /\ (hist = <<>> \/ HistRows(hist) > 0) => ret[ArrowSide] = ret[ParquetSide]

\* count and is_empty agree always
C16_CountsAgree ==
    BothRead /\ call[ArrowSide].op \in {"count", "is_empty"}
        => ret[ArrowSide] = ret[ParquetSide]

(***************************************************************************)
(* count, is_empty and load (claim C17), checked under SpecBoth.  A        *)
(* reading call leaves what is stored as it is, so the load that follows   *)
(* it returns what load returns of the present batch list or file.         *)
(***************************************************************************)
\* the number of rows of what load returns now on the two adapters: those of
\* the Column Model in Some, 0 for None
RowsLoadReturns ==
    [s \in {ArrowSide, ParquetSide} |->
        len(LoadedRows(IF s = ArrowSide THEN Arrow_read_call(batches, "load", NoArg)
                       ELSE Parquet_read_call(file, "load", NoArg)))]

\* C17: after any sequence of successful save/append/clear calls, on either
\* backend, count() returns the number of rows of the data load() returns,
\* 0 when load() returns nothing, and is_empty() returns true exactly when
\* that number is 0.
C17_CountIsRowsOfLoad ==
    \A s \in {ArrowSide, ParquetSide} :
        /\ BothRead /\ call[s].op = "count" => ret[s] = Ok(RowsLoadReturns[s])
        /\ BothRead /\ call[s].op = "is_empty" => ret[s] = Ok(RowsLoadReturns[s] = 0)

\* count returned 3, the rows of two batches
C17_Witness ==
    /\ BothRead /\ call[ArrowSide].op = "count"
    /\ Len(batches) = 2
    /\ ret[ArrowSide] = Ok(3) /\ ret[ParquetSide] = Ok(3)
    /\ RowsLoadReturns[ArrowSide] = 3

\* is_empty returned true though a file is there and a batch is in the list
C17_WitnessEmpty ==
    /\ BothRead /\ call[ArrowSide].op = "is_empty"
    /\ file.exists /\ Len(batches) = 1
    /\ ret[ArrowSide] = Ok(TRUE) /\ ret[ParquetSide] = Ok(TRUE)

(***************************************************************************)
(* count on the on-disk adapter (claim C18), checked under SpecForeign,    *)
(* where the file holds any batch of the schema, decodable or not.         *)
(***************************************************************************)
\* C18: count() on the on-disk backend returns the row count the footer of the
\* stored file records and decodes no row: it returns that count also for a
\* file whose rows load() cannot decode, such as one that holds an
\* enumeration code outside the declared variants.
C18_CountFromFooterAlone ==
    \A t \in Tasks :
        CountReturned(t) /\ file.exists /\ file.complete
            => ret[t] = Ok(num_rows(file.batch))

\* count returned 2 for a file whose second row carries payment code 3, on
\* which load fails
C18_Witness ==
    /\ CountReturned(Main)
    /\ file.exists /\ file.complete
    /\ file.batch.columns[3].values = <<2, 3>>
    /\ Parquet_load(file) = Err("TypeConversion")
    /\ ret[Main] = Ok(2)

(***************************************************************************)
(* query (claim C19), checked under SpecBoth.                              *)
(***************************************************************************)
\* what load returns now on the two adapters
LoadReturnsNow ==
    [s \in {ArrowSide, ParquetSide} |->
        IF s = ArrowSide THEN Arrow_read_call(batches, "load", NoArg)
        ELSE Parquet_read_call(file, "load", NoArg)]

\* C19: on either backend query(p) returns exactly what load() returns when
\* p accepts that whole Column Model, and None when p rejects it or when load
\* returns None; it returns no subset of the rows, and what is stored stays
\* what the writes left.
C19_QueryIsLoadIfAccepted ==
    \A s \in {ArrowSide, ParquetSide} :
        BothRead /\ call[s].op = "query"
            => /\ LET l == LoadReturnsNow[s]
                  IN  ret[s] = IF l.val.some /\ Accepts(call[s].data, l.val.val)
                               THEN l ELSE Ok(None)
               /\ batches = ArrowReplay(hist)
               /\ file = ParquetReplay(hist)

\* the predicate holds of one row only and query returned both rows
C19_Witness ==
    /\ BothRead /\ call[ParquetSide].op = "query" /\ call[ParquetSide].data = "has_delivered"
    /\ ret[ParquetSide].val.some
    /\ ret[ParquetSide].val.val.status = <<"Delivered", "Shipped">>
    /\ ret[ArrowSide] = ret[ParquetSide]

\* the predicate rejects the stored Column Model and query returned None
C19_WitnessRejected ==
    /\ BothRead /\ call[ArrowSide].op = "query" /\ call[ArrowSide].data = "has_delivered"
    /\ LoadReturnsNow[ArrowSide].val.some
    /\ ret[ArrowSide] = Ok(None) /\ ret[ParquetSide] = Ok(None)

(***************************************************************************)
(* append on an adapter that holds nothing (claim C20), checked under      *)
(* SpecPersist with the steps of the calls.                                *)
(***************************************************************************)
\* the only committed write is an append(D): the adapter was new, or cleared
\* by the call before
AppendedToNothing == Len(hist) = 1 /\ hist[1].op = "append"

\* C20: on either backend append(D) on an adapter that holds no content
\* leaves what save(D) leaves: load() returns D and count() returns D.len();
\* on the on-disk backend the missing file counts as empty and is no error.
C20_AppendToNothingIsSave ==
    \A t \in Tasks :
        /\ LoadReturned(t) /\ AppendedToNothing => ret[t] = Ok(Some(hist[1].data))
        /\ CountReturned(t) /\ AppendedToNothing => ret[t] = Ok(len(hist[1].data))

\* what holds of the code: the append leaves the batch list or the file that
\* save(D) leaves on a new adapter, count returns D.len(), and load returns D
\* when D has rows
C20_AppendLeavesWhatSaveLeaves ==
    \A t \in Tasks :
        (pc[t] = "ret" /\ AppendedToNothing)
            => /\ backend = "arrow" => batches = Arrow_write(<<>>, "save", hist[1].data).batches
               /\ backend = "parquet" => file = Parquet_write(NoFile, "save", hist[1].data).file
               /\ call[t].op = "append" => ret[t] = Ok(Unit)
               /\ call[t].op = "count" => ret[t] = Ok(len(hist[1].data))
               /\ call[t].op = "load" /\ ~is_empty(hist[1].data)
                    => ret[t] = Ok(Some(hist[1].data))

(***************************************************************************)
(* A stored batch with another schema (claim C21), checked under           *)
(* SpecSchema.                                                             *)
(***************************************************************************)
\* the call returned the error e: errors are compared as written out, since
\* some carry a name and some do not
Failed(r, e) == r.kind = "Err" /\ ToString(r.err) = ToString(e)

\* C21: a load of a stored batch whose schema differs from the schema of the
\* Column Model, in the names, the order or the types of the fields, fails
\* with SchemaMismatch, and no Column Model is built from the batch.
C21_SchemaMismatchFailsLoad ==
    \A t \in Tasks :
        LoadReturned(t) /\ file.exists /\ file.complete /\ file.batch.schema # arrow_schema
            => Failed(ret[t], "SchemaMismatch")

\* no load returns SchemaMismatch at all
C21_NeverSchemaMismatch ==
    \A t \in Tasks : LoadReturned(t) => ~Failed(ret[t], "SchemaMismatch")

\* with the types of the schema in place, whatever the names and their order,
\* the load builds a Column Model from the columns by position
C21_NamesAreNotLookedAt ==
    \A t \in Tasks :
        (/\ LoadReturned(t) /\ file.exists /\ file.complete
         /\ \A k \in 1..3 : file.batch.schema[k].type = arrow_schema[k].type)
            => ret[t] = Ok(Some(FromRows(<<DemoOrders[2]>>)))

\* with another type in some column the load fails with ColumnNotFound
C21_TypesGiveColumnNotFound ==
    \A t \in Tasks :
        (/\ LoadReturned(t) /\ file.exists /\ file.complete
         /\ \E k \in 1..3 : file.batch.schema[k].type # arrow_schema[k].type)
            => \E k \in 1..3 : Failed(ret[t], [ColumnNotFound |-> arrow_schema[k].name])

(***************************************************************************)
(* The index push and add return (claim C22), checked under SpecIndex.     *)
(***************************************************************************)
\* C22: push(row) returns the index of the new row, len() - 1 after the
\* push: the k-th push on a Column Model returns k - 1; Store.add returns
\* the index the row has in the Column Model of the handle it was called on.
C22_PushReturnsNewIndex ==
    /\ soaRet.op = "push"
            => /\ soaRet.ret = len(soa) - 1
               /\ soaRet.ret = Len(pushed) - 1
               /\ view(soa, soaRet.ret) = [kind |-> "view", row |-> pushed[Len(pushed)]]
    /\ storeOp.op = "add"
            => /\ storeOp.ret = len(kernel(heap, storeOp.h)) - 1
               /\ view(kernel(heap, storeOp.h), storeOp.ret)
                    = [kind |-> "view", row |-> storeOp.v]

\* the third push returned 2, and an add that copied the shared Column Model
\* of one row returned 1
C22_Witness ==
    /\ soaRet.op = "push" /\ soaRet.ret = 2
    /\ storeOp.op = "add" /\ storeOp.copied /\ storeOp.ret = 1
    /\ \E g \in Handles : Live(g) /\ len(kernel(heap, g)) = 1

(***************************************************************************)
(* view and view_mut past the end (claim C23), checked under SpecSoA.      *)
(***************************************************************************)
\* view(i) or view_mut(i) was called with i >= len()
ViewedPastEnd == soaRet.op \in {"view", "view_mut"} /\ soaRet.i >= len(soa)

\* C23: view(i) and view_mut(i) with i >= len() fail with IndexOutOfRange, an
\* error the caller gets back and can recover from; the Column Model is
\* unchanged, no view is returned and the index is not clamped to a row.
C23_ViewPastEndIsReported == ViewedPastEnd => soaRet.out.kind = "IndexOutOfRange"

\* what holds of the code: the call panics, at the index into the first column
C23_ViewPastEndPanics == ViewedPastEnd => soaRet.out.kind = "panic"

(***************************************************************************)
(* shard and shard_mut (claim C24), checked under SpecSharded.             *)
(***************************************************************************)
\* shard(i) or shard_mut(i) was the last call
ShardTaken == shardOp.op \in {"shard", "shard_mut"}

\* C24: on a Sharded Store with n shards, shard(i) and shard_mut(i) with
\* i >= n fail with ShardIndexOutOfRange, an error the caller gets back and
\* can recover from, and every shard is unchanged; with i < n they give
\* shard i and no other.
C24_ShardPastEndIsReported ==
    ShardTaken =>
        IF shardOp.i >= Len(shards)
        THEN shardOp.out.kind = "ShardIndexOutOfRange"
        ELSE shardOp.out.soa = shards[shardOp.i + 1]

\* what holds of the code: past the end the call panics, below it the call
\* gives shard i
C24_ShardPastEndPanics ==
    ShardTaken =>
        IF shardOp.i >= Len(shards)
        THEN shardOp.out = Panic
        ELSE shardOp.out.soa = shards[shardOp.i + 1]

(***************************************************************************)
(* iter (claim C25), checked under SpecSoA.                                *)
(***************************************************************************)
\* C25: iter() on a Column Model with len() = n yields n views, the k-th
\* (from 0) equal to view(k), in increasing row order, and then ends; every
\* iter() starts at row 0 again and yields the same views while the Column
\* Model is not changed.
C25_IterYieldsEveryView ==
    soaRet.op = "iter" =>
        /\ Len(soaRet.yielded) <= len(soa)
        /\ \A k \in 1..Len(soaRet.yielded) : soaRet.yielded[k] = view(soa, k - 1)
        /\ soaRet.ended => Len(soaRet.yielded) = len(soa)

\* an iterator over three rows, not all equal, has ended
C25_Witness ==
    /\ soaRet.op = "iter" /\ soaRet.ended
    /\ Len(soaRet.yielded) = 3
    /\ soaRet.yielded[1] # soaRet.yielded[3]

\* every iter() starts at row 0, with nothing yielded
C25_IterStartsOver ==
    [][soaRet'.op = "iter" /\ (soaRet.op # "iter" \/ soaRet'.yielded = <<>>)
            => soaRet'.range.start = Len(soaRet'.yielded)]_soaVars

(***************************************************************************)
(* The raw-array accessors (claim C26), checked under SpecSoA.             *)
(***************************************************************************)
\* C26: for every field f, f_raw_array() has len() elements, the i-th of
\* them the value of field f that view(i) shows, for every i < len(); the
\* accessor leaves the Column Model as the pushes made it.
C26_RawArrayIsTheColumn ==
    soaRet.op = "raw_array" =>
        /\ Len(soaRet.out) = len(soa)
        /\ \A i \in 0..(len(soa) - 1) : soaRet.out[i + 1] = view(soa, i).row[soaRet.f]
        /\ soa = FromRows(pushed)

\* the raw array of the status column of three rows, not all equal
C26_Witness ==
    /\ soaRet.op = "raw_array" /\ soaRet.f = "status"
    /\ Len(soaRet.out) = 3
    /\ soaRet.out[1] # soaRet.out[2]

(***************************************************************************)
(* Appends on one file at the same time (claim C27), checked under         *)
(* SpecDiskAppend.                                                         *)
(***************************************************************************)
\* the rows of a Column Model, in order
RowsOf(s) == [i \in 1..len(s) |-> [f \in FieldSet |-> s[f][i]]]

RECURSIVE IsSubseq(_, _)
\* the rows of a are rows of b, in the order they have in b
IsSubseq(a, b) ==
    IF a = <<>> THEN TRUE
    ELSE IF b = <<>> THEN FALSE
    ELSE IF Head(a) = Head(b) THEN IsSubseq(Tail(a), Tail(b))
    ELSE IsSubseq(a, Tail(b))

\* the rows the closed file holds
FileRows == RowsOf(from_record_batch(file.batch).val)

\* C27: appends that run at the same time on one file path are not
\* serialized.  Each rewrites the file with what it loaded followed by its own
\* rows, so that the closed file holds rows of the committed appends in their
\* order, the rows of the last one at the end, and may lack the rows of an
\* earlier one: the lost update is reached in C27_Witness.
C27_AppendRewritesWhatItLoaded ==
    (hist # <<>> /\ file.exists /\ file.complete)
        => /\ IsSubseq(FileRows, RowsOf(Stored(hist)))
           /\ FileRows # <<>>
           /\ FileRows[Len(FileRows)] = RowsOf(hist[Len(hist)].data)[1]

\* two appends have returned Ok, neither wrote while the other had the file
\* open, both had found no file, and the file holds the row of one of them
C27_Witness ==
    /\ \A t \in {1, 2} :
          /\ pc[t] = "ret" /\ call[t].op = "append" /\ ret[t] = Ok(Unit)
          /\ ~loc[t].overlap
          /\ loc[t].seen = "absent"
    /\ Len(hist) = 2
    /\ file.exists /\ file.complete
    /\ FileRows = RowsOf(hist[2].data)
    /\ ~IsSubseq(RowsOf(hist[1].data), FileRows)

(***************************************************************************)
(* What each Store handle observes (claim C28), checked under SpecStore.   *)
(***************************************************************************)
\* the Column Model s with the row v after its rows
WithRow(s, v) == [f \in FieldSet |-> Append(s[f], v[f])]

\* C28: over any sequence of new, clone, add, kernel_mut and drop on Store
\* handles, a handle's kernel() holds the rows its source held when the
\* handle was made, followed by the rows added through the handle, in order.
\* Step by step: a new handle observes no rows, a clone observes what its
\* source observes, an add puts its row after the rows of the handle it is
\* called on, kernel_mut changes what that handle observes only by what the
\* caller writes through it, and no step changes what another handle
\* observes, the original included.
C28_HandleKeepsItsSnapshot ==
    [][ LET h == storeOp'.h
            op == storeOp'.op
        IN  /\ op = "new" => KernelAfter(h) = new
            /\ op = "clone" => KernelAfter(h) = KernelOf(storeOp'.src)
            /\ op = "add" => KernelAfter(h) = WithRow(KernelOf(h), storeOp'.v)
            /\ op = "kernel_mut" =>
                  \E w \in KernelWrites :
                      KernelAfter(h) =
                          CASE w.kind = "none" -> KernelOf(h)
                            [] w.kind = "push" -> WithRow(KernelOf(h), w.v)
                            [] w.kind = "assign" -> w.soa
            /\ \A g \in Handles \ {h} :
                  Live(g) => inner'[g] # 0 /\ KernelAfter(g) = KernelOf(g)
      ]_storeVars

\* the original handle added a second row while a clone shared the first:
\* the clone still observes the one row
C28_Witness ==
    /\ storeOp.op = "add" /\ storeOp.h = 1 /\ storeOp.copied
    /\ KernelOf(1).order_id = <<1, 2>>
    /\ Live(2) /\ KernelOf(2) = FromRows(<<DemoOrders[1]>>)

(***************************************************************************)
(* The Sharded Store after any adds (claim C29), checked under             *)
(* SpecSharded, where shards change by add only.                           *)
(***************************************************************************)
\* the adds that returned, counted from the rows they left
RowsInShards == SumSeq(MapSeq(len, shards))

\* C29: after with_shards(n, c) with n >= 1 and any sequence of adds,
\* shard_count() is still n, every shard index an add returned is below n,
\* every row in shard s has a key whose hash mod n is s, and the len() of
\* the shards sum to the number of adds.
C29_ShardsStayAsBuilt ==
    [][ /\ shardOp'.op = "with_shards" => Len(shards') = shardOp'.n
        /\ (Len(shards) >= 1 /\ shardOp.op # "none") =>
          /\ Len(shards') = Len(shards)
          /\ shardOp'.op = "shard_count" => shardOp'.ret = Len(shards)
          /\ shardOp'.op = "add" =>
                /\ shardOp'.ret.kind = "Ok"
                /\ shardOp'.ret.val[1] < Len(shards)
                /\ SumSeq(MapSeq(len, shards')) = SumSeq(MapSeq(len, shards)) + 1
          /\ shardOp'.op # "add" => shards' = shards
          /\ \A s \in 1..Len(shards') : \A j \in 1..len(shards'[s]) :
                LET key == shards'[s][shard_key][j]
                IN  hasher'[key] # Unhashed /\ hasher'[key] % Len(shards') = s - 1
      ]_shardVars

\* the shards hold three rows between them, none is empty, and
\* shard_count() returned the number built
C29_Witness ==
    /\ shardOp.op = "shard_count" /\ shardOp.ret = MaxShards
    /\ Len(shards) = MaxShards
    /\ RowsInShards = 3
    /\ \A s \in 1..Len(shards) : len(shards[s]) >= 1

(***************************************************************************)
(* save_batches and append_batches when a conversion fails (claim C30),    *)
(* checked under SpecBatches: one task, the in-memory adapter.  `stable`   *)
(* is the batch list as the call before left it.                           *)
(***************************************************************************)
\* the batches of a list of Column Models that all convert
Converted(list) ==
    LET batch_of(d) == to_record_batch(d).val
    IN  MapSeq(batch_of, list)

\* the step on which save_batches or append_batches of the task returns
BatchCallReturns ==
    /\ pc[Main] # "ret" /\ pc'[Main] = "ret"
    /\ call[Main].op \in {"save_batches", "append_batches"}

\* C30: save_batches(list) and append_batches(list) on the in-memory backend
\* are one transaction each: when the call succeeds the stored list is one
\* batch per element of list, in order, in place of the prior content for
\* save_batches and after it for append_batches; when the conversion of an
\* element fails the call returns the error and the stored content is what
\* it was before the call.
C30_BatchCallsAreTransactions ==
    [][ BatchCallReturns =>
          IF ret'[Main].kind = "Ok"
          THEN batches' = (IF call[Main].op = "save_batches" THEN <<>> ELSE stable)
                              \o Converted(call[Main].data)
          ELSE batches' = stable
      ]_vars

\* what holds of the code: a call that succeeds stores the whole list; a call
\* that fails at element i has stored the i - 1 elements before it, after
\* clearing the prior content (save_batches) or after it (append_batches)
C30_FailedCallStoresPrefix ==
    [][ BatchCallReturns =>
          LET list == call[Main].data
              before == IF call[Main].op = "save_batches" THEN <<>> ELSE stable
          IN  IF ret'[Main].kind = "Ok"
              THEN batches' = before \o Converted(list)
              ELSE \E i \in 1..Len(list) :
                      /\ to_record_batch(list[i]).kind = "Err"
                      /\ ret'[Main] = to_record_batch(list[i])
                      /\ batches' = before \o Converted(SubSeq(list, 1, i - 1))
      ]_vars

(***************************************************************************)
(* save and append that fail before they write (claim C31), checked under  *)
(* SpecFailedWrite: one task, either adapter.                              *)
(***************************************************************************)
\* the step is part of a save or an append of the task and comes before its
\* write step: the call itself, the lock request, the existence test, the
\* reload, or the return of an error from one of these
BeforeWriteStep ==
    /\ call'[Main].op \in {"save", "append"}
    /\ pc[Main] \in {"idle", "p_exists", "p_read"}
    /\ pc'[Main] \in {"a_lock", "p_exists", "p_read", "p_create", "ret"}

\* the call returns an error that one of these steps raised
FailsBeforeWrite ==
    /\ BeforeWriteStep
    /\ pc'[Main] = "ret"
    /\ ret'[Main].kind = "Err"

\* C31: if save or append returns an error raised before the write step
\* (the input does not convert to a batch, or, for the on-disk append, the
\* existing file does not reload or decode), the content stored before the
\* call is unchanged on both backends: no step of the call up to that return
\* changes the batch list or the file, and the error is that of the
\* conversion or of the reload.
C31_FailedWriteLeavesContent ==
    [][ /\ BeforeWriteStep => batches' = batches /\ file' = file
        /\ FailsBeforeWrite =>
              LET data == call'[Main].data
                  op == call'[Main].op
              IN  IF backend = "arrow" \/ op = "save"
                  THEN ret'[Main] = to_record_batch(data)
                  ELSE \/ ret'[Main] = Parquet_load(file)
                       \/ /\ Parquet_load(file).kind = "Ok"
                          /\ ret'[Main] = Parquet_combined(Parquet_load(file).val, data)
      ]_vars

\* an append on the on-disk adapter has returned the error of decoding the
\* file, which holds its rows as before
C31_Witness ==
    /\ backend = "parquet"
    /\ pc[Main] = "ret" /\ call[Main].op = "append"
    /\ Failed(ret[Main], "TypeConversion")
    /\ file.exists /\ file.complete /\ file.num_rows = MaxForeignRows

\* a save on the in-memory adapter has returned the error of the conversion
\* and the list holds the batch it held
C31_WitnessArrow ==
    /\ backend = "arrow"
    /\ pc[Main] = "ret" /\ call[Main].op = "save"
    /\ ret[Main].kind = "Err"
    /\ Len(batches) = 1 /\ num_rows(batches[1]) > 0

(***************************************************************************)
(* Appends through clones of one in-memory adapter (claim C32), checked    *)
(* under SpecArrowAppend.  `hist` lists the appends that returned, in the  *)
(* order in which they returned.                                           *)
(***************************************************************************)
\* the Column Models of the appends that returned
Appended == LET data_of(e) == e.data IN MapSeq(data_of, hist)

\* the batch an append has pushed and not yet returned from
PushedBy == {t \in Tasks : pc[t] = "a_unlock"}

\* C32: clones of an in-memory adapter share one batch list: when append(A)
\* and append(B) run concurrently through two clones, after both return the
\* list holds both batches, in one of the two orders, and count() equals
\* A.len() + B.len(); no append is lost.
C32_NoAppendIsLost ==
    /\ Cardinality(PushedBy) <= 1
    /\ batches = Converted(Appended)
                    \o (IF PushedBy = {} THEN <<>>
                        ELSE <<loc[CHOOSE t \in PushedBy : TRUE].batch>>)
    /\ \A t, u \in Tasks :
          (Len(hist) = 2 /\ {hist[1].data, hist[2].data} = {ConcAppendOf(t), ConcAppendOf(u)}
             /\ PushedBy = {})
          => LET A == to_record_batch(ConcAppendOf(t)).val
                 B == to_record_batch(ConcAppendOf(u)).val
             IN  /\ batches \in {<<A, B>>, <<B, A>>}
                 /\ Arrow_count(batches) = Ok(len(ConcAppendOf(t)) + len(ConcAppendOf(u)))
    /\ \A t \in Tasks :
          (pc[t] = "ret" /\ call[t].op = "count")
          => \E k \in 0..Len(hist) :
                /\ loc[t].snap = Converted(SubSeq(Appended, 1, k))
                /\ ret[t] = Ok(HistRows(SubSeq(hist, 1, k)))

\* the second task's append returned before the first task's, both have
\* returned, and a count made afterwards returned the rows of both
C32_Witness ==
    /\ batches = <<to_record_batch(ConcAppendOf(2)).val, to_record_batch(ConcAppendOf(1)).val>>
    /\ pc[1] = "ret" /\ call[1].op = "count"
    /\ ret[1] = Ok(len(ConcAppendOf(1)) + len(ConcAppendOf(2)))
    /\ pc[2] = "idle"

(***************************************************************************)
(* load_batches (claim C33), checked under SpecBatches.                    *)
(***************************************************************************)
\* a load_batches call of the task has returned
LoadBatchesReturned == pc[Main] = "ret" /\ call[Main].op = "load_batches"

\* the first m batches of the list the call cloned, each decoded
DecodedPrefix(m) == [i \in 1..m |-> from_record_batch(loc[Main].snap[i]).val]

Min(a, b) == IF a <= b THEN a ELSE b

\* C33: load_batches(k) on the in-memory backend returns the first
\* min(k, number of stored batches) stored batches, each decoded to a Column
\* Model, in insertion order; in particular it returns an empty list when
\* k = 0 and never more than k elements.
C33_LoadBatchesReturnsAtMostK ==
    LoadBatchesReturned =>
        ret[Main] = Ok(DecodedPrefix(Min(call[Main].data, Len(loc[Main].snap))))

\* what holds of the code: the loop tests the size after it has pushed, so a
\* batch size of 0 returns one batch when any is stored; every other size
\* returns the first min(k, stored) batches
C33_LoadBatchesReturnsAtLeastOne ==
    LoadBatchesReturned =>
        LET k == call[Main].data
            stored == Len(loc[Main].snap)
        IN  /\ ret[Main] = Ok(DecodedPrefix(Min(IF k = 0 THEN 1 ELSE k, stored)))
            /\ loc[Main].snap = batches

(***************************************************************************)
(* The batch list of the in-memory adapter (claim C34), checked under      *)
(* SpecArrowList: one task.  `stable` is the list as the call before left  *)
(* it.                                                                     *)
(***************************************************************************)
\* C34: on the in-memory backend the stored batch list holds exactly one
\* batch after save, grows by exactly one batch, placed last, on each append,
\* and is empty after clear; get_batches() and memory_usage().num_batches
\* report that list and memory_usage().total_rows equals count().
C34_BatchListShape ==
    [][ /\ (pc[Main] = "a_unlock" /\ pc'[Main] = "ret") =>
              LET batch == to_record_batch(call[Main].data).val
              IN  CASE call[Main].op = "save" -> batches' = <<batch>>
                    [] call[Main].op = "append" ->
                          /\ batches' = Append(stable, batch)
                          /\ Len(batches') = Len(stable) + 1
                    [] call[Main].op = "clear" -> batches' = <<>>
        /\ (pc[Main] = "a_clone" /\ pc'[Main] = "ret") =>
              CASE call[Main].op = "get_batches" -> ret'[Main] = Ok(batches)
                [] call[Main].op = "memory_usage" ->
                      /\ ret'[Main].kind = "Ok"
                      /\ ret'[Main].val.num_batches = Len(batches)
                      /\ Ok(ret'[Main].val.total_rows) = Arrow_count(batches)
                [] call[Main].op = "count" -> ret'[Main] = Arrow_count(batches)
      ]_vars

\* memory_usage returned two batches and three rows: a save and an append,
\* one of one row and one of two, came before
C34_Witness ==
    /\ pc[Main] = "ret" /\ call[Main].op = "memory_usage"
    /\ ret[Main] = Ok([total_rows |-> 3, num_batches |-> 2])
    /\ Len(batches) = 2
    /\ Len(hist) = 2 /\ hist[1].op = "save" /\ hist[2].op = "append"

(***************************************************************************)
(* Reads leave the stored content alone (claim C35), checked under         *)
(* SpecReads: two tasks read, and no write begins between a read of the    *)
(* second task and the moment its caller takes the result.                 *)
(***************************************************************************)
\* task t has made a reading call that has not been taken by its caller yet
Reading(t) == pc[t] # "idle" /\ call[t].op \in ReadingOps

\* the two tasks hold the results of the same reading call, and no write came
\* between the two reads
SameReadTwice ==
    /\ pc[Main] = "ret" /\ pc[Second] = "ret"
    /\ call[Main].op \in ReadingOps
    /\ call[Main] = call[Second]

\* C35: load(), count(), is_empty() and query() on either backend, and
\* get_batches(), merge_batches(), memory_usage() and load_batches() on the
\* in-memory backend, never change the stored content: two such reads with
\* no save/append/clear between them return equal results.
C35_ReadsLeaveContent ==
    [][ /\ (\E t \in Readers : Reading(t)' /\ (pc'[t] # pc[t] \/ call'[t] # call[t]))
           => batches' = batches /\ file' = file
        /\ SameReadTwice' => ret'[Main] = ret'[Second]
      ]_vars

\* both tasks hold the two batches that load_batches(2) returned
C35_Witness ==
    /\ SameReadTwice
    /\ call[Main].op = "load_batches" /\ call[Main].data = 2
    /\ ret[Second].kind = "Ok" /\ Len(ret[Second].val) = 2

\* both tasks hold what query returned for a file of two rows
C35_WitnessDisk ==
    /\ SameReadTwice
    /\ backend = "parquet"
    /\ call[Main].op = "query"
    /\ ret[Second].kind = "Ok" /\ ret[Second].val.some /\ len(ret[Second].val.val) = 2

(***************************************************************************)
(* Writes through a mutable view (claim C36), checked under SpecViewMut.   *)
(***************************************************************************)
\* C36: writing field values through view_mut(i) with i < len() changes
\* row i only: len() and every column's length stay the same, and view(j)
\* for every j different from i returns the same values as before the write.
C36_WriteChangesOneRow ==
    [][ soaRet'.op = "write" =>
          LET i == soaRet'.i
          IN  /\ i < len(soa)
              /\ len(soa') = len(soa)
              /\ \A f \in FieldSet : Len(soa'[f]) = Len(soa[f])
              /\ \A j \in 0..MaxRows : j # i => view(soa', j) = view(soa, j)
              /\ view(soa', i).row =
                    [view(soa, i).row EXCEPT ![soaRet'.f] = soaRet'.v]
      ]_soaVars

\* the middle row of three has been written and differs from the row that
\* was pushed there; the rows around it are the pushed ones
C36_Witness ==
    /\ soaRet.op = "write" /\ soaRet.i = 1
    /\ len(soa) = 3
    /\ view(soa, 1).row # pushed[2]
    /\ view(soa, 0).row = pushed[1]
    /\ view(soa, 2).row = pushed[3]

(***************************************************************************)
(* Decoding a batch that lacks a column (claim C37), checked under         *)
(* SpecDecode.                                                             *)
(***************************************************************************)
\* the fields of the schema that the decoded batch does not have
MissingFields(batch) ==
    {arrow_schema[k].name : k \in DOMAIN arrow_schema}
        \ {batch.schema[j].name : j \in DOMAIN batch.schema}

\* C37: decoding a batch from which an expected field's column is missing
\* fails with a ColumnNotFound error naming that field, returned as an error
\* value; decoding does not crash and does not build a Column Model.
C37_MissingColumnIsReported ==
    conv.op = "from_record_batch" =>
        \A name \in MissingFields(conv.batch) :
            Failed(conv.out, [ColumnNotFound |-> name])

\* what holds of the code: the columns are taken by position, so a batch
\* that lacks a column never decodes to a Column Model; the call returns
\* ColumnNotFound for the first field whose position holds a column of
\* another type, and panics at the first position past the batch's end
C37_MissingColumnPanicsOrMisnames ==
    (conv.op = "from_record_batch" /\ MissingFields(conv.batch) # {}) =>
        LET n == Len(conv.batch.columns)
            wrong == {k \in 1..n : conv.batch.columns[k].type # arrow_schema[k].type}
        IN  IF wrong = {} THEN conv.out = Panic
            ELSE \E k \in wrong :
                    /\ \A j \in wrong : k <= j
                    /\ Failed(conv.out, [ColumnNotFound |-> arrow_schema[k].name])

(***************************************************************************)
(* A Sharded Store built with no shards (claim C38), checked under         *)
(* SpecSharded.                                                            *)
(***************************************************************************)
\* C38: with_shards(0, c) succeeds and yields a Sharded Store with no shards
\* (shard_count() == 0); every later add on it fails, because the shard
\* index is a remainder by zero, and stores no row.
C38_NoShardsNoAdd ==
    [][ /\ (shardOp'.op = "with_shards" /\ shardOp'.n = 0)
           => shards' = <<>> /\ shard_count(shards') = 0
        /\ (shardOp.op # "none" /\ shard_count(shards) = 0)
           => /\ shards' = <<>>
              /\ shardOp'.op = "shard_count" => shardOp'.ret = 0
              /\ shardOp'.op = "add"
                 => /\ shardOp'.ret = Panic
                    /\ \A h \in HashVals : shard_idx_from_key(h, shard_count(shards)) = Panic
                    /\ RowsInShards' = 0
      ]_shardVars

\* an add on the store built by with_shards(0, c) has panicked, after the
\* key was hashed
C38_Witness ==
    /\ shards = <<>>
    /\ shardOp.op = "add" /\ shardOp.ret = Panic
    /\ \E k \in ShardKeys : hasher[k] # Unhashed

(***************************************************************************)
(* The PersistentOrderStore after add and add_batch (claim C39), checked   *)
(* under SpecPersistent.  call[Main] is the method called last.            *)
(***************************************************************************)
\* the last method called was an add or an add_batch and it succeeded
AddedLast == call[Main].op \in {"add", "add_batch"} /\ ret[Main].kind = "Ok"

\* C39: for a PersistentOrderStore, after every successful add or add_batch
\* (and with no append_to_storage call), storage_count() equals len(): the
\* persisted snapshot holds exactly the rows of the in-memory Store.
C39_StorageFollowsStore ==
    AddedLast =>
        /\ Arrow_count(batches) = Ok(len(kernel(heap, StoreHandle)))
        /\ Arrow_load(batches) = Ok(Some(kernel(heap, StoreHandle)))
        /\ Len(batches) = 1

\* an add_batch of two orders returned their indices and the adapter holds
\* the two rows
C39_Witness ==
    /\ call[Main].op = "add_batch"
    /\ ret[Main] = Ok(<<0, 1>>)
    /\ Arrow_count(batches) = Ok(2)
    /\ len(kernel(heap, StoreHandle)) = 2

====
